---- MODULE Spec2Model ----
(***************************************************************************)
(* Movement core of Permafrost Engine (src/unnamed/part_001 is             *)
(* game/movement.c; src/src/game/formation.c is the formation planner).    *)
(*                                                                         *)
(* The model keeps the owning thread's state: the Movestate table, the     *)
(* flocks, the navigation blocker counts, the gamestate snapshot, the      *)
(* command queue, the work buffer of the tick task and the formation       *)
(* bookkeeping.  Vectors (positions, velocities) are abstracted: a         *)
(* position is a tile of a one dimensional strip, a velocity is 0 (zero)   *)
(* or 1 (non-zero).  Answers of code that is outside of the repository     *)
(* sources (navigation queries, ClearPath, entity flags) are inputs that   *)
(* are chosen nondeterministically.  A failed assert() stops the program:  *)
(* the name of the assertion is recorded in 'abort' and no handler runs    *)
(* afterwards.                                                             *)
(***************************************************************************)
EXTENDS Integers, Sequences, FiniteSets, TLC

(***************************************************************************)
(* Bounds of the model                                                     *)
(***************************************************************************)
\* capacity that the enqueue actions leave the command queue at
MaxQueue == 2
\* number of formations that may be created in one behaviour
MaxFormations == 1

\* entity UIDs, tiles of the map strip, selection radiuses, speeds
UIDs == {1, 2}
Tiles == {0, 1, 2}
Radii == {0, 1}
\* target directions of a turn, in degrees
Dirs == {0, 25}
Speeds == {0, 1}
\* requested destinations: OffMap, the first tile beyond the strip, is not
\* reachable and is clamped
OffMap == Cardinality(Tiles)
DestPts == {0, 1, OffMap}

(***************************************************************************)
(* Program constants                                                       *)
(***************************************************************************)
WAIT_TICKS == 60
\* degrees that an agent turns by in a tick, at most
MAX_TURN_RATE == 15
\* the bands of the surround field in units of the strip: the distances
\* 0, 1 and 2 of the strip lie below SURROUND_LOW_WATER, between the two
\* marks, and at SURROUND_HIGH_WATER
SURROUND_LOW_WATER == 1
SURROUND_HIGH_WATER == 2
\* NULL_FID and NULL_UID are the all-ones id of the engine's headers: a value
\* that no formation and no entity has
NULL_FID == -1
NULL_UID == -1

\* enum movement_hz and the tick events; of the four rates of the engine the
\* model has two
MOVE_HZ_20 == "MOVE_HZ_20"
MOVE_HZ_10 == "MOVE_HZ_10"
EVENT_20HZ_TICK == "EVENT_20HZ_TICK"
EVENT_10HZ_TICK == "EVENT_10HZ_TICK"
movement_hz == {MOVE_HZ_20, MOVE_HZ_10}
TickEvents == {EVENT_20HZ_TICK, EVENT_10HZ_TICK}

event_to_hz(event) == IF event = EVENT_20HZ_TICK THEN MOVE_HZ_20 ELSE MOVE_HZ_10

event_for_hz(hz) == IF hz = MOVE_HZ_20 THEN EVENT_20HZ_TICK ELSE EVENT_10HZ_TICK

STATE_MOVING == "MOVING"
STATE_MOVING_IN_FORMATION == "MOVING_IN_FORMATION"
STATE_ARRIVED == "ARRIVED"
STATE_SEEK_ENEMIES == "SEEK_ENEMIES"
STATE_WAITING == "WAITING"
STATE_SURROUND_ENTITY == "SURROUND_ENTITY"
STATE_ENTER_ENTITY_RANGE == "ENTER_ENTITY_RANGE"
STATE_TURNING == "TURNING"
STATE_ARRIVING_TO_CELL == "ARRIVING_TO_CELL"

arrival_state == {STATE_MOVING, STATE_MOVING_IN_FORMATION, STATE_ARRIVED,
                  STATE_SEEK_ENEMIES, STATE_WAITING, STATE_SURROUND_ENTITY,
                  STATE_ENTER_ENTITY_RANGE, STATE_TURNING, STATE_ARRIVING_TO_CELL}

FORMATION_NONE == "NONE"
FORMATION_RANK == "RANK"

\* absent entry of the Movestate table (movestate_get returns NULL)
NoMs == [state |-> "none"]

VARIABLES
    ms,            \* s_entity_state_table: uid -> struct movestate, or NoMs
    flocks,        \* s_flocks: vector of struct flock
    blockers,      \* navigation blocker reference count of every tile
    positions,     \* s_move_work.gamestate.positions
    sel_radiuses,  \* s_move_work.gamestate.sel_radiuses
    ent_formation, \* s_ent_formation_map of formation.c
    formations,    \* s_formations of formation.c: fid -> [ents, refcount]
    next_id,       \* s_next_id of formation.c
    sched_full,    \* the scheduler has no free task: Sched_Create returns NULL_TID
    wild_crash,    \* what a read through a pointer to the wrong object will do
    xform,         \* uid -> the transform of the game's entity: 'rot' is the
                   \* pitch of Entity_GetRot in degrees, 'at' is how far the
                   \* position that G_Pos_Set wrote lies on the way from
                   \* prev_pos to next_pos, in twentieths
    plan,          \* what the planner of formation.c or the builder of the
                   \* fields works on: the occupied and islands fields and
                   \* the subformations, a cost matrix and its assignment, or
                   \* the fields of a chunk; NoPlan while none of them runs
    cmds,          \* s_move_commands, oldest first
    work,          \* s_move_work.in / .out: the work items of the last tick
    task,          \* the navigation tick task: "none", "ready", "blocked", "resumed", "done"
    work_type,     \* s_move_work.type
    use_gpu,       \* s_use_gpu
    tick_queued,   \* s_move_tick_queued
    fresh_frame,   \* g_frame_idx # s_last_tick
    move_hz,       \* s_move_hz
    hz_dirty,      \* s_move_hz_dirty
    registered,    \* the tick events that move_tick is registered for
    work_hz,       \* s_move_work.hz
    queued_events, \* the tick events that are queued in this frame
    interp_frame,  \* g_frame_idx = s_last_interpolate_tick
    interpolated,  \* interpolate_tick has moved the entities in this frame
    tick_log,      \* the steps of the handler that ran last, if it was a tick or a flush
    drained,       \* the commands that this tick or flush popped, oldest first
    pre,           \* the tables when this tick or flush began to pop the commands
    applied,       \* the number of patches that this tick applied
    abort          \* "" or the name of the assertion that failed

moveVars == <<ms, flocks, blockers, positions, sel_radiuses,
              ent_formation, formations, next_id, sched_full, wild_crash, xform,
              cmds, work, task,
              work_type, use_gpu, tick_queued, fresh_frame, move_hz, hz_dirty,
              registered, work_hz, queued_events, interp_frame, interpolated,
              tick_log, drained, pre, applied, abort>>

vars == <<moveVars, plan>>

NoPlan == [kind |-> "none"]

\* the tiles of a side of the occupied field of a formation
OCCUPIED_FIELD_RES == 4

\* the largest cost of an entity and a cell, and the parts of an assignment
\* computation that are run at most
MaxCost == 2
MaxSteps == 40

\* the cost of a cell that is not placed
INT_MAX == 2147483647

\* the tiles of a side of a field, the largest base cost of a passable
\* tile, and the most tiles that are impassable and that cost more than 1
FIELD_RES_R == 3
MaxBaseCost == 3
MaxWalls == 2
MaxRough == 1

\* the base cost of a tile that is impassable, and the integration cost of
\* a tile that no path reaches
COST_IMPASSABLE == 255
INFINITY == 1000000

(***************************************************************************)
(* The part of the state that the command handlers and the patch           *)
(* application work on, as one record that is threaded through them.       *)
(***************************************************************************)
\* 'garrisoned' holds the uids whose flags have ENTITY_FLAG_GARRISONED when
\* a handler reads them: the game garrisons no entity in the runs that are
\* explored.  'hz' is s_move_work.hz, which the tick task reads.  'wild_dist'
\* is the distance that a handler gets from a position that it reads past
\* the end of the snapshot's table
Core == [ms |-> ms, flocks |-> flocks, blockers |-> blockers,
         positions |-> positions, sel_radiuses |-> sel_radiuses,
         garrisoned |-> {}, wild_dist |-> 0, ent_formation |-> ent_formation,
         formations |-> formations, next_id |-> next_id,
         sched_full |-> sched_full, wild_crash |-> wild_crash, xform |-> xform,
         hz |-> work_hz, log |-> tick_log,
         abort |-> abort]

\* assert(cond): the first failing assertion stops everything after it
Check(st, cond, name) ==
    IF st.abort = "" /\ ~cond THEN [st EXCEPT !.abort = name] ELSE st

Ok(st) == st.abort = ""

\* a step of move_do_tick is entered: it is appended to the log of the tick
Step(st, name) == IF Ok(st) THEN [st EXCEPT !.log = Append(st.log, name)] ELSE st

movestate_get(st, uid) == st.ms[uid]

ent_still(m) == m.state = STATE_ARRIVED \/ m.state = STATE_WAITING

\* tiles covered by the disk of the given radius around pos
Disk(pos, radius) ==
    {t \in Tiles : (IF t >= pos THEN t - pos ELSE pos - t) <= radius}

M_NavBlockersIncref(st, pos, radius) ==
    [st EXCEPT !.blockers = [t \in Tiles |->
        IF t \in Disk(pos, radius) THEN st.blockers[t] + 1 ELSE st.blockers[t]]]

M_NavBlockersDecref(st, pos, radius) ==
    [st EXCEPT !.blockers = [t \in Tiles |->
        IF t \in Disk(pos, radius) THEN st.blockers[t] - 1 ELSE st.blockers[t]]]

(***************************************************************************)
(* formation.c: binding of entities to formations                          *)
(***************************************************************************)
G_Formation_GetForEnt(st, uid) == st.ent_formation[uid]

\* G_Formation_RemoveUnit: the entry of s_ent_formation_map is left in place
G_Formation_RemoveUnit(st, uid) ==
    LET fid == G_Formation_GetForEnt(st, uid) IN
    IF ~Ok(st) \/ fid = NULL_FID THEN st
    ELSE IF fid \notin DOMAIN st.formations
         THEN Check(st, FALSE, "formation_exists")
    ELSE IF uid \notin st.formations[fid].ents
         THEN Check(st, FALSE, "formation_has_ent")
    ELSE LET f  == st.formations[fid]
             nf == [f EXCEPT !.ents = f.ents \ {uid}, !.refcount = f.refcount - 1]
         IN IF nf.refcount = 0
            THEN [st EXCEPT !.formations =
                    [k \in (DOMAIN st.formations) \ {fid} |-> st.formations[k]]]
            ELSE [st EXCEPT !.formations =
                    [k \in DOMAIN st.formations |->
                        IF k = fid THEN nf ELSE st.formations[k]]]

\* dispatch_cell_task: the argument that cell_field_task gets, from the
\* task or from the call that replaces a task that could not be created
dispatch_cell_task(st) == IF st.sched_full THEN "work->result" ELSE "work"

\* cell_field_task: the cell arrival field of the request.  Its argument is
\* read as the request; through any other pointer the map and the input
\* that it reads are not those of the request
cell_field_task(st, arg) ==
    IF arg = "work" THEN "computed"
    ELSE IF st.wild_crash THEN "crash" ELSE "garbage"

\* G_Formation_Create: a fresh id, every entity of the selection is mapped
\* to it, and dispatch_cell_field_work requests the cell arrival fields
G_Formation_Create(st, ents, type) ==
    IF ~Ok(st) THEN st
    ELSE LET fid == st.next_id IN
         IF cell_field_task(st, dispatch_cell_task(st)) = "crash"
         THEN Check(st, FALSE, "crash_cell_field_task")
         ELSE
         [st EXCEPT !.next_id = fid + 1,
                    !.ent_formation = [u \in UIDs |->
                        IF u \in ents THEN fid ELSE st.ent_formation[u]],
                    !.formations = [k \in (DOMAIN st.formations) \cup {fid} |->
                        IF k = fid
                        THEN [ents |-> ents, refcount |-> Cardinality(ents),
                              type |-> type,
                              field |-> cell_field_task(st, dispatch_cell_task(st))]
                        ELSE st.formations[k]]]

(***************************************************************************)
(* Flocks                                                                  *)
(***************************************************************************)
\* vec_flock_del: the last element takes the place of the deleted one
vec_flock_del(v, i) ==
    IF i = Len(v) THEN SubSeq(v, 1, Len(v) - 1)
    ELSE [k \in 1..(Len(v) - 1) |-> IF k = i THEN v[Len(v)] ELSE v[k]]

flock_contains(flock, uid) == uid \in flock.ents

\* index of the first flock that holds uid, 0 for NULL
flock_for_ent(st, uid) ==
    IF \E i \in 1..Len(st.flocks) : flock_contains(st.flocks[i], uid)
    THEN CHOOSE i \in 1..Len(st.flocks) :
            /\ flock_contains(st.flocks[i], uid)
            /\ \A j \in 1..(i - 1) : ~flock_contains(st.flocks[j], uid)
    ELSE 0

\* index of the first flock with the destination id, 0 for NULL
flock_for_dest(st, id) ==
    IF \E i \in 1..Len(st.flocks) : st.flocks[i].dest_id = id
    THEN CHOOSE i \in 1..Len(st.flocks) :
            /\ st.flocks[i].dest_id = id
            /\ \A j \in 1..(i - 1) : st.flocks[j].dest_id # id
    ELSE 0

flock_try_remove(st, i, uid) ==
    IF Ok(st) /\ flock_contains(st.flocks[i], uid)
    THEN G_Formation_RemoveUnit(
            [st EXCEPT !.flocks[i].ents = st.flocks[i].ents \ {uid}], uid)
    ELSE st

\* flock_add asserts that the entity was not a member before
flock_add(st, i, uid) ==
    IF ~Ok(st) THEN st
    ELSE IF uid \in st.flocks[i].ents THEN Check(st, FALSE, "flock_add_new")
    ELSE [st EXCEPT !.flocks[i].ents = st.flocks[i].ents \cup {uid}]

RECURSIVE remove_from_flocks_loop(_, _, _)
remove_from_flocks_loop(st, i, uid) ==
    IF i = 0 \/ ~Ok(st) THEN st
    ELSE LET del_if_empty(s1) ==
                IF Ok(s1) /\ s1.flocks[i].ents = {}
                THEN [s1 EXCEPT !.flocks = vec_flock_del(s1.flocks, i)]
                ELSE s1
         IN remove_from_flocks_loop(
                del_if_empty(flock_try_remove(st, i, uid)), i - 1, uid)

remove_from_flocks(st, uid) ==
    LET in_no_flock(s1) ==
            Check(s1, flock_for_ent(s1, uid) = 0, "removed_from_all_flocks")
    IN in_no_flock(remove_from_flocks_loop(st, Len(st.flocks), uid))

(***************************************************************************)
(* Blocking                                                                *)
(***************************************************************************)
\* entity_block that forgets the blocker counts of the tiles
entity_block_no_incref(st, uid) ==
    IF ~Ok(st) THEN st
    ELSE IF st.ms[uid].blocking THEN Check(st, FALSE, "block_not_blocking")
    ELSE [st EXCEPT !.ms[uid].blocking = TRUE,
                    !.ms[uid].last_stop_pos = st.positions[uid],
                    !.ms[uid].last_stop_radius = st.sel_radiuses[uid]]

entity_block(st, uid) ==
    IF ~Ok(st) THEN st
    ELSE LET sel_radius == st.sel_radiuses[uid]
             pos == st.positions[uid]
             set_blocking(s1) ==
                IF s1.ms[uid].blocking THEN Check(s1, FALSE, "block_not_blocking")
                ELSE [s1 EXCEPT !.ms[uid].blocking = TRUE,
                                !.ms[uid].last_stop_pos = pos,
                                !.ms[uid].last_stop_radius = sel_radius]
         IN set_blocking(M_NavBlockersIncref(st, pos, sel_radius))

entity_unblock(st, uid) ==
    IF ~Ok(st) THEN st
    ELSE IF ~st.ms[uid].blocking THEN Check(st, FALSE, "unblock_blocking")
    ELSE [M_NavBlockersDecref(st, st.ms[uid].last_stop_pos,
                              st.ms[uid].last_stop_radius)
            EXCEPT !.ms[uid].blocking = FALSE]

stationary(st, uid) ==
    \/ movestate_get(st, uid) = NoMs
    \/ movestate_get(st, uid).max_speed = 0

entity_finish_moving(st, uid, newstate, block) ==
    IF ~Ok(st) THEN st
    ELSE IF ent_still(st.ms[uid]) THEN Check(st, FALSE, "finish_not_still")
    ELSE LET s2 == IF newstate = STATE_WAITING
                   THEN [st EXCEPT !.ms[uid].wait_prev = st.ms[uid].state,
                                   !.ms[uid].wait_ticks_left = WAIT_TICKS]
                   ELSE st
             s3 == [s2 EXCEPT !.ms[uid].state = newstate,
                              !.ms[uid].velocity = 0]
             is_still(s4) ==
                IF Ok(s4) THEN Check(s4, ent_still(s4.ms[uid]), "finish_still")
                ELSE s4
         IN is_still(IF block THEN entity_block(s3, uid) ELSE s3)

(***************************************************************************)
(* Command handlers                                                        *)
(***************************************************************************)
\* the elements of a set of uids in increasing order (order of a selection)
RECURSIVE SetToSeq(_)
SetToSeq(S) ==
    IF S = {} THEN <<>>
    ELSE LET m == CHOOSE x \in S : \A y \in S : x <= y
         IN <<m>> \o SetToSeq(S \ {m})

\* M_NavClosestReachableDest: a destination off the map is clamped to the
\* closest tile of the map, every tile of the map is kept
M_NavClosestReachableDest(dest) == IF dest = OffMap THEN OffMap - 1 ELSE dest

\* M_NavDestIDForPos / M_NavDestIDForPosAttacking
M_NavDestIDForPos(dest, attack) == <<dest, attack>>

\* formation_for_ent of formation.c, as used by G_Formation_Type and the
\* per-entity formation queries: the formation of a mapped entity must exist
formation_for_ent(st, uid) ==
    Check(st, \/ G_Formation_GetForEnt(st, uid) = NULL_FID
              \/ G_Formation_GetForEnt(st, uid) \in DOMAIN st.formations,
          "formation_exists")

G_Formation_Type(st, fid) == st.formations[fid].type

do_add_entity(st, uid, pos, radius) ==
    IF ~Ok(st) THEN st
    ELSE LET s1 == [st EXCEPT !.positions[uid] = pos,
                              !.sel_radiuses[uid] = radius]
             new_ms == [state |-> STATE_ARRIVED, max_speed |-> 0, velocity |-> 0,
                        blocking |-> FALSE, last_stop_pos |-> 0,
                        last_stop_radius |-> 0, wait_prev |-> STATE_MOVING,
                        wait_ticks_left |-> 0, surround_target_uid |-> 0,
                        using_surround_field |-> FALSE,
                        \* members that the initializer does not name are zero
                        step |-> 0, left |-> 0, next_rot |-> 0, prev_rot |-> 0,
                        target_dir |-> 0]
         IN IF st.ms[uid] # NoMs THEN Check(s1, FALSE, "add_new_uid")
            ELSE entity_block([s1 EXCEPT !.ms[uid] = new_ms], uid)

do_stop(st, uid) ==
    IF ~Ok(st) \/ movestate_get(st, uid) = NoMs THEN st
    ELSE LET set_arrived(s2) ==
                IF Ok(s2) THEN [s2 EXCEPT !.ms[uid].state = STATE_ARRIVED] ELSE s2
         IN set_arrived(remove_from_flocks(
                IF ~ent_still(st.ms[uid])
                THEN entity_finish_moving(st, uid, STATE_ARRIVED, TRUE)
                ELSE st, uid))

do_remove_entity(st, uid) ==
    IF ~Ok(st) \/ movestate_get(st, uid) = NoMs THEN st
    ELSE LET erase(s2) == IF Ok(s2) THEN [s2 EXCEPT !.ms[uid] = NoMs] ELSE s2
             unblock(s1) ==
                erase(IF uid \notin s1.garrisoned THEN entity_unblock(s1, uid)
                      ELSE s1)
         IN unblock(do_stop(st, uid))

RECURSIVE make_flock_remove(_, _)
make_flock_remove(st, units) ==
    IF units = <<>> THEN st
    ELSE make_flock_remove(remove_from_flocks(st, Head(units)), Tail(units))

\* the loop of make_flock that fills new_flock; the result carries the
\* members collected so far in the field 'new_ents'
RECURSIVE make_flock_fill(_, _, _, _)
make_flock_fill(st, units, type, new_ents) ==
    IF units = <<>> \/ ~Ok(st) THEN [st |-> st, new_ents |-> new_ents]
    ELSE LET curr == Head(units) IN
         IF stationary(st, curr)
         THEN make_flock_fill(st, Tail(units), type, new_ents)
         ELSE LET rest(s3) ==
                    make_flock_fill(s3, Tail(units), type,
                        IF Ok(s3) THEN new_ents \cup {curr} ELSE new_ents)
                  add(s1) ==
                    rest(IF ~Ok(s1) THEN s1
                         ELSE IF curr \in new_ents
                         THEN Check(s1, FALSE, "flock_add_new")
                         ELSE [s1 EXCEPT !.ms[curr].state =
                                IF type = FORMATION_NONE THEN STATE_MOVING
                                ELSE STATE_MOVING_IN_FORMATION])
              IN add(IF ent_still(st.ms[curr]) THEN entity_unblock(st, curr)
                     ELSE st)

RECURSIVE flock_add_all(_, _, _)
flock_add_all(st, i, units) ==
    IF units = <<>> THEN st
    ELSE flock_add_all(flock_add(st, i, Head(units)), i, Tail(units))

make_flock(st, units, target_xz, attack, type) ==
    IF ~Ok(st) \/ units = <<>> THEN st
    ELSE LET target  == M_NavClosestReachableDest(target_xz)
             dest_id == M_NavDestIDForPos(target, attack)
             \* new_flock holds new_ents: it is merged or appended
             place(s2, new_ents, merge) ==
                IF ~Ok(s2) \/ new_ents = {} THEN s2
                ELSE IF merge # 0
                     THEN flock_add_all(s2, merge, SetToSeq(new_ents))
                     ELSE [s2 EXCEPT !.flocks = Append(s2.flocks,
                            [ents |-> new_ents, target_xz |-> target,
                             dest_id |-> dest_id])]
             merge_or_append(filled) ==
                place(filled.st, filled.new_ents,
                      flock_for_dest(filled.st, dest_id))
         IN merge_or_append(
                make_flock_fill(make_flock_remove(st, units), units, type, {}))

\* filter_selection_pathable: entities without a Movestate are dropped
filter_selection_pathable(st, sel) == {u \in sel : movestate_get(st, u) # NoMs}

make_flocks(st, sel, target_xz, type, attack) ==
    LET fsel == filter_selection_pathable(st, sel) IN
    IF ~Ok(st) \/ fsel = {} THEN st
    ELSE G_Formation_Create(
            make_flock(st, SetToSeq(fsel), target_xz, attack, type), fsel, type)

\* do_set_dest that stops the entity and always makes a flock for it
do_set_dest_restart(st, uid, dest_xz, attack) ==
    IF ~Ok(st) THEN st
    ELSE make_flock(do_stop(st, uid), <<uid>>,
                    M_NavClosestReachableDest(dest_xz), attack, FORMATION_NONE)

\* do_set_dest that joins the flock of the destination without leaving the
\* flock that the entity is in
do_set_dest_keep_flock(st, uid, dest_xz, attack) ==
    LET dest_id == M_NavDestIDForPos(M_NavClosestReachableDest(dest_xz), attack)
        fl      == flock_for_dest(st, dest_id)
    IN IF ~Ok(st) \/ movestate_get(st, uid) = NoMs THEN st
       ELSE IF fl # 0 /\ ~flock_contains(st.flocks[fl], uid)
       THEN [flock_add(st, fl, uid) EXCEPT !.ms[uid].state = STATE_MOVING]
       ELSE make_flock(st, <<uid>>, M_NavClosestReachableDest(dest_xz), attack,
                       FORMATION_NONE)

do_set_dest(st, uid, dest_xz, attack) ==
    IF ~Ok(st) THEN st
    ELSE LET dest    == M_NavClosestReachableDest(dest_xz)
             dest_id == M_NavDestIDForPos(dest, attack)
             fl      == flock_for_dest(st, dest_id)
         IN IF fl # 0 /\ fl = flock_for_ent(st, uid)
            THEN \* the entity is a member of the flock of this destination
                 LET set_moving(s2) ==
                        IF Ok(s2) THEN [s2 EXCEPT !.ms[uid].state = STATE_MOVING]
                        ELSE s2
                 IN IF movestate_get(st, uid) = NoMs
                    THEN Check(st, FALSE, "set_dest_ms")
                    ELSE set_moving(IF ent_still(st.ms[uid])
                                    THEN entity_unblock(st, uid) ELSE st)
            ELSE IF fl # 0
            THEN \* join the existing flock of this destination
                 LET dest_of == st.flocks[fl].dest_id
                     set_moving(s4) ==
                        IF Ok(s4) THEN [s4 EXCEPT !.ms[uid].state = STATE_MOVING]
                        ELSE s4
                     unblock(s2) ==
                        IF ~Ok(s2) THEN s2
                        ELSE IF movestate_get(s2, uid) = NoMs
                        THEN Check(s2, FALSE, "set_dest_ms")
                        ELSE set_moving(IF ent_still(s2.ms[uid])
                                        THEN entity_unblock(s2, uid) ELSE s2)
                     \* the flock may have moved in the vector
                     add(s1) ==
                        unblock(IF Ok(s1)
                                THEN flock_add(s1, flock_for_dest(s1, dest_of), uid)
                                ELSE s1)
                 IN add(remove_from_flocks(st, uid))
            ELSE \* create a new flock
                 LET fid  == G_Formation_GetForEnt(st, uid)
                     s1   == formation_for_ent(st, uid)
                     type == IF Ok(s1) /\ fid # NULL_FID
                             THEN G_Formation_Type(s1, fid) ELSE FORMATION_NONE
                 IN make_flock(s1, <<uid>>, dest, attack, type)

do_set_change_direction(st, uid, target) ==
    IF ~Ok(st) \/ movestate_get(st, uid) = NoMs THEN st
    ELSE LET set_state(s1) ==
                IF Ok(s1) THEN [s1 EXCEPT !.ms[uid].state = STATE_TURNING,
                                          !.ms[uid].target_dir = target]
                ELSE s1
         IN set_state(IF ent_still(st.ms[uid]) THEN entity_unblock(st, uid)
                      ELSE st)

\* distance between two tiles of the strip
Dist(a, b) == IF a >= b THEN a - b ELSE b - a

do_set_enter_range(st, uid, target, range) ==
    IF ~Ok(st) \/ movestate_get(st, uid) = NoMs THEN st
    ELSE LET xz_src == st.positions[uid]
             xz_dst == st.positions[target]
             radius == st.sel_radiuses[uid]
             rng    == IF range - radius > 0 THEN range - radius ELSE 0
         IN IF Dist(xz_src, xz_dst) <= rng THEN do_stop(st, uid)
            ELSE LET set_state(s1) ==
                        IF Ok(s1)
                        THEN [s1 EXCEPT !.ms[uid].state = STATE_ENTER_ENTITY_RANGE,
                                        !.ms[uid].surround_target_uid = target]
                        ELSE s1
                 IN set_state(do_set_dest(st, uid, xz_dst, FALSE))

\* using_surround_field: the agent is within the inner band of the target
using_surround_field(st, uid, target) ==
    Dist(st.positions[uid], st.positions[target]) < SURROUND_LOW_WATER

do_set_surround_entity(st, uid, target) ==
    IF ~Ok(st) \/ movestate_get(st, uid) = NoMs THEN st
    ELSE LET set_state(s2) ==
                IF ~Ok(s2) THEN s2
                ELSE IF s2.ms[uid].blocking
                THEN Check(s2, FALSE, "surround_not_blocking")
                ELSE [s2 EXCEPT !.ms[uid].state = STATE_SURROUND_ENTITY,
                                !.ms[uid].surround_target_uid = target,
                                !.ms[uid].using_surround_field =
                                    using_surround_field(s2, uid, target)]
             set_dest(s1) ==
                set_state(do_set_dest(s1, uid, s1.positions[target], FALSE))
         IN set_dest(do_stop(st, uid))

do_set_seek_enemies(st, uid) ==
    IF ~Ok(st) \/ movestate_get(st, uid) = NoMs THEN st
    ELSE LET set_state(s2) ==
                IF Ok(s2) THEN [s2 EXCEPT !.ms[uid].state = STATE_SEEK_ENEMIES]
                ELSE s2
             unblock(s1) ==
                set_state(IF Ok(s1) /\ ent_still(s1.ms[uid])
                          THEN entity_unblock(s1, uid) ELSE s1)
         IN unblock(remove_from_flocks(st, uid))

do_update_pos(st, uid, pos) ==
    IF ~Ok(st) \/ movestate_get(st, uid) = NoMs THEN st
    ELSE LET s1 == [st EXCEPT !.positions[uid] = pos]
         IN IF ~s1.ms[uid].blocking THEN s1
            ELSE [M_NavBlockersIncref(
                    M_NavBlockersDecref(s1, s1.ms[uid].last_stop_pos,
                                        s1.ms[uid].last_stop_radius),
                    pos, s1.ms[uid].last_stop_radius)
                  EXCEPT !.ms[uid].last_stop_pos = pos]

\* the faction only selects the per-faction occupancy mask; the blocker
\* reference counts are decremented and incremented over the same disk
do_update_faction_id(st, uid) ==
    IF ~Ok(st) \/ movestate_get(st, uid) = NoMs THEN st
    ELSE IF ~st.ms[uid].blocking THEN st
    ELSE M_NavBlockersIncref(
            M_NavBlockersDecref(st, st.ms[uid].last_stop_pos,
                                st.ms[uid].last_stop_radius),
            st.ms[uid].last_stop_pos, st.ms[uid].last_stop_radius)

do_update_selection_radius(st, uid, sel_radius) ==
    IF ~Ok(st) \/ movestate_get(st, uid) = NoMs THEN st
    ELSE LET s1 == [st EXCEPT !.sel_radiuses[uid] = sel_radius]
         IN IF ~s1.ms[uid].blocking THEN s1
            ELSE [M_NavBlockersIncref(
                    M_NavBlockersDecref(s1, s1.ms[uid].last_stop_pos,
                                        s1.ms[uid].last_stop_radius),
                    s1.ms[uid].last_stop_pos, sel_radius)
                  EXCEPT !.ms[uid].last_stop_radius = sel_radius]

do_set_max_speed(st, uid, speed) ==
    IF ~Ok(st) \/ movestate_get(st, uid) = NoMs THEN st
    ELSE [st EXCEPT !.ms[uid].max_speed = speed]

do_block(st, uid, newpos) ==
    IF ~Ok(st) THEN st
    ELSE entity_block([st EXCEPT !.positions[uid] = newpos], uid)

(***************************************************************************)
(* The command queue                                                       *)
(***************************************************************************)
MakeCmd(type, uid, a, b, sel) ==
    [type |-> type, uid |-> uid, a |-> a, b |-> b, sel |-> sel, deleted |-> FALSE]

\* one iteration of the loop of move_process_cmds, for a command that was popped
do_cmd(st, cmd) ==
    IF ~Ok(st) \/ cmd.deleted THEN st
    ELSE CASE cmd.type = "ADD" -> do_add_entity(st, cmd.uid, cmd.a, cmd.b)
           [] cmd.type = "REMOVE" -> do_remove_entity(st, cmd.uid)
           [] cmd.type = "STOP" -> do_stop(st, cmd.uid)
           [] cmd.type = "SET_DEST" -> do_set_dest(st, cmd.uid, cmd.a, cmd.b = 1)
           [] cmd.type = "CHANGE_DIRECTION" ->
                do_set_change_direction(st, cmd.uid, cmd.a)
           [] cmd.type = "SET_ENTER_RANGE" ->
                do_set_enter_range(st, cmd.uid, cmd.a, cmd.b)
           [] cmd.type = "SET_SEEK_ENEMIES" -> do_set_seek_enemies(st, cmd.uid)
           [] cmd.type = "SET_SURROUND_ENTITY" ->
                do_set_surround_entity(st, cmd.uid, cmd.a)
           [] cmd.type = "UPDATE_POS" -> do_update_pos(st, cmd.uid, cmd.a)
           [] cmd.type = "UPDATE_FACTION_ID" -> do_update_faction_id(st, cmd.uid)
           [] cmd.type = "UPDATE_SELECTION_RADIUS" ->
                do_update_selection_radius(st, cmd.uid, cmd.a)
           [] cmd.type = "SET_MAX_SPEED" -> do_set_max_speed(st, cmd.uid, cmd.a)
           [] cmd.type = "MAKE_FLOCKS" ->
                make_flocks(st, cmd.sel, cmd.a,
                            IF cmd.uid = 1 THEN FORMATION_RANK ELSE FORMATION_NONE,
                            cmd.b = 1)
           [] cmd.type = "UNBLOCK" ->
                IF movestate_get(st, cmd.uid) # NoMs /\ st.ms[cmd.uid].blocking
                THEN entity_unblock(st, cmd.uid) ELSE st
           [] cmd.type = "BLOCK" ->
                IF movestate_get(st, cmd.uid) # NoMs /\ ~st.ms[cmd.uid].blocking
                THEN do_block(st, cmd.uid, cmd.a) ELSE st

\* move_process_cmds that pops the most recent command first
RECURSIVE move_process_cmds_lifo(_, _)
move_process_cmds_lifo(st, queue) ==
    IF queue = <<>> THEN st
    ELSE move_process_cmds_lifo(do_cmd(st, queue[Len(queue)]),
                                SubSeq(queue, 1, Len(queue) - 1))

\* move_process_cmds: pops the queue from the head until it is empty
RECURSIVE move_process_cmds(_, _)
move_process_cmds(st, queue) ==
    IF queue = <<>> THEN st
    ELSE move_process_cmds(do_cmd(st, Head(queue)), Tail(queue))

(***************************************************************************)
(* The work of a tick: entity_compute_update derives a patch               *)
(***************************************************************************)
NoPatch == [flags |-> {}, next_state |-> "", next_velocity |-> 0,
            next_block |-> FALSE, next_pos |-> 0, next_rot |-> 0,
            next_step |-> 0, next_left |-> 0, next_prot |-> 0, next_nrot |-> 0,
            next_target_dir |-> 0]

\* The answers that entity_compute_update gets from outside of the movement
\* core for one entity:
\*   moved      the new velocity is non-zero and leads to a pathable position
\*   stuck      the position the entity ends at is not pathable
\*   assignment_ready, assigned_to_cell, in_range_of_cell, arrived_at_cell
\*              the formation state that move_do_tick gathered
\*   arrived, adjacent, vdes_zero
\*              arrived(), a flock member within adjacency distance, |vdes| < EPSILON
\*   obj_adjacent the agent is adjacent to the surround target
\*   repath_failed  M_NavClosestReachableAdjacentPos found no destination
\*   dest_changed the flock target differs from the computed destination
\*   in_range   the enter-range target is within range
\*   target_moved the enter-range target moved by more than 5 units
\*   facing     the orientation of the agent's cell is 0 degrees, and else 20
EnvFields == {"moved", "stuck", "assignment_ready", "assigned_to_cell",
              "in_range_of_cell", "arrived_at_cell", "arrived", "adjacent",
              "vdes_zero", "obj_adjacent", "repath_failed", "dest_changed",
              "in_range", "target_moved", "facing"}

\* the inputs that the code reads in the given state; the others stay FALSE.
\* The preferred velocity of an agent in Turning is zero, and the velocity
\* that is computed from it leaves the agent where it is
EnvRelevant(m, fid) ==
    {"stuck"}
    \cup (IF m.max_speed > 0 /\ m.state # STATE_TURNING THEN {"moved"} ELSE {})
    \cup (CASE m.state \in {STATE_MOVING, STATE_MOVING_IN_FORMATION} ->
                {"arrived", "adjacent", "vdes_zero"}
                \cup (IF fid # NULL_FID
                      THEN {"assignment_ready", "assigned_to_cell", "in_range_of_cell"}
                      ELSE {})
            [] m.state = STATE_SEEK_ENEMIES -> {"vdes_zero"}
            [] m.state = STATE_SURROUND_ENTITY ->
                {"obj_adjacent", "repath_failed", "dest_changed", "vdes_zero"}
            [] m.state = STATE_ENTER_ENTITY_RANGE -> {"in_range", "target_moved"}
            [] m.state = STATE_ARRIVING_TO_CELL ->
                IF fid # NULL_FID
                THEN {"assignment_ready", "in_range_of_cell", "arrived_at_cell",
                      "facing"}
                ELSE {}
            [] OTHER -> {})

EnvSet(m, fid) ==
    {[f \in EnvFields |-> f \in T] : T \in SUBSET EnvRelevant(m, fid)}

\* entity_exists: the uid has a position in the snapshot.  The snapshot is
\* copied from the tables of the game when the commands of the tick have
\* been drained, and the game deletes the position of an entity that it
\* removes: the keys of the snapshot that the work is computed and applied
\* against are the entities of the state table
entity_exists(st, uid) == uid \in UIDs /\ st.ms[uid] # NoMs

\* hz_count: the ticks per second of a tick rate
hz_count(hz) == IF hz = MOVE_HZ_20 THEN 20 ELSE 10

\* PFM_Quat_PitchDiff, in degrees: the signed angle from the pitch of 'to'
\* to the pitch of 'from', in the half-open range above -180 up to 180
PFM_Quat_PitchDiff(from, to) ==
    LET d == (from - to + 360) % 360 IN IF d > 180 THEN d - 360 ELSE d

SetState(p, state, block) ==
    [p EXCEPT !.flags = p.flags \cup {"SET_STATE"}, !.next_state = state,
              !.next_block = block]

\* entity_compute_update: the patch, the Movestate after the side effects
\* of the computation, and the assertion that failed, if any
entity_compute_update(st, uid, e) ==
    LET m    == st.ms[uid]
        fid  == G_Formation_GetForEnt(st, uid)
        \* an interpolation that was not completed is flushed
        flush == IF m.left > 0
                 THEN [NoPatch EXCEPT
                         !.flags = {"SET_POSITION", "SET_ROTATION", "SET_LEFT"},
                         !.next_pos = 20, !.next_rot = m.next_rot,
                         !.next_left = 0]
                 ELSE NoPatch
        none == [patch |-> flush, ms |-> m, abort |-> ""]
        \* the subticks of a tick, and the steps that are left after the tick
        left == (20 \div hz_count(st.hz)) - 1
        \* the new segment starts at next_pos; the entity is put at its end,
        \* or at the fraction ms->step of it.  The rotation follows the
        \* weighted velocities, which all point along the strip (0 degrees)
        vel  == IF e.moved
                THEN [flush EXCEPT
                        !.flags = @ \cup {"SET_PREV_POS", "SET_NEXT_POS", "SET_STEP",
                                          "SET_LEFT", "SET_POSITION", "SET_VELOCITY",
                                          "SET_PREV_ROT", "SET_NEXT_ROT",
                                          "SET_ROTATION"},
                        !.next_step = 20 \div (20 \div hz_count(st.hz)),
                        !.next_left = left,
                        !.next_pos = IF left = 0 THEN 20 ELSE m.step,
                        !.next_velocity = 1,
                        !.next_prot = m.next_rot,
                        !.next_nrot = IF m.velocity > 0 THEN 0 ELSE m.prev_rot,
                        !.next_rot = m.next_rot]
                ELSE [flush EXCEPT !.flags = @ \cup {"SET_VELOCITY"},
                                   !.next_velocity = 0]
        out(p) == [patch |-> p, ms |-> m, abort |-> ""]
        fl   == flock_for_ent(st, uid)
        degrees == PFM_Quat_PitchDiff(st.xform[uid].rot, m.target_dir)
        fabs    == IF degrees < 0 THEN -degrees ELSE degrees
        \* MIN(MAX_TURN_RATE, fabs(degrees)) * -SIGNUM(degrees)
        turn_deg == (IF MAX_TURN_RATE < fabs THEN MAX_TURN_RATE ELSE fabs)
                    * (IF degrees > 0 THEN -1 ELSE IF degrees < 0 THEN 1 ELSE 0)
        final   == (st.xform[uid].rot + turn_deg + 360) % 360
    IN
    IF uid \in st.garrisoned
    THEN IF ~ent_still(m) THEN out(SetState(flush, STATE_ARRIVED, FALSE)) ELSE none
    ELSE IF e.stuck THEN out(vel)
    ELSE CASE m.state \in {STATE_MOVING, STATE_MOVING_IN_FORMATION} ->
            IF fid # NULL_FID /\ ~e.assignment_ready THEN out(vel)
            ELSE IF fid # NULL_FID /\ e.assigned_to_cell /\ e.in_range_of_cell
                 THEN out(SetState(vel, STATE_ARRIVING_TO_CELL, FALSE))
            ELSE IF fl = 0 THEN [none EXCEPT !.abort = "compute_flock"]
            ELSE IF e.arrived THEN out(SetState(vel, STATE_ARRIVED, TRUE))
            ELSE IF e.adjacent /\ \E o \in st.flocks[fl].ents \ {uid} :
                        st.ms[o] # NoMs /\ st.ms[o].state = STATE_ARRIVED
                 THEN out(SetState(vel, STATE_ARRIVED, TRUE))
            ELSE IF e.vdes_zero THEN out(SetState(vel, STATE_WAITING, TRUE))
            ELSE out(vel)
         [] m.state = STATE_SEEK_ENEMIES ->
            IF e.vdes_zero THEN out(SetState(vel, STATE_WAITING, TRUE)) ELSE out(vel)
         [] m.state = STATE_SURROUND_ENTITY ->
            IF m.surround_target_uid = NULL_UID
            THEN out(SetState(vel, STATE_ARRIVED, TRUE))
            ELSE IF ~entity_exists(st, m.surround_target_uid) \/ e.obj_adjacent
                 THEN out(SetState(vel, STATE_ARRIVED, TRUE))
            ELSE IF e.repath_failed THEN out(SetState(vel, STATE_ARRIVED, TRUE))
            ELSE IF fl = 0 THEN [none EXCEPT !.abort = "compute_flock"]
            ELSE IF e.dest_changed
                 THEN out([SetState(vel, STATE_SURROUND_ENTITY, FALSE)
                            EXCEPT !.flags = @ \cup {"SET_DEST"}])
            ELSE IF e.vdes_zero THEN out(SetState(vel, STATE_WAITING, TRUE))
            ELSE out(vel)
         [] m.state = STATE_ENTER_ENTITY_RANGE ->
            IF m.surround_target_uid = NULL_UID
            THEN out(SetState(vel, STATE_ARRIVED, TRUE))
            ELSE IF e.in_range THEN out(SetState(vel, STATE_WAITING, TRUE))
            ELSE IF e.target_moved
                 THEN out([vel EXCEPT !.flags = @ \cup {"SET_DEST"}])
            ELSE out(vel)
         [] m.state = STATE_TURNING ->
            IF fabs <= 5 THEN out(SetState(vel, STATE_ARRIVED, TRUE))
            ELSE out([vel EXCEPT !.flags = @ \cup {"SET_ROTATION", "SET_PREV_ROT"},
                                 !.next_rot = final, !.next_prot = final])
         [] m.state = STATE_WAITING ->
            IF m.wait_ticks_left <= 0 THEN [none EXCEPT !.abort = "wait_ticks_left"]
            ELSE LET m2 == [m EXCEPT !.wait_ticks_left = m.wait_ticks_left - 1] IN
                 IF m2.wait_ticks_left # 0 THEN [patch |-> vel, ms |-> m2, abort |-> ""]
                 ELSE IF m.wait_prev \notin {STATE_MOVING, STATE_MOVING_IN_FORMATION,
                                             STATE_SEEK_ENEMIES, STATE_SURROUND_ENTITY}
                      THEN [patch |-> flush, ms |-> m2, abort |-> "wait_prev"]
                 ELSE [patch |-> [vel EXCEPT !.flags = @ \cup {"SET_MOVING"},
                                             !.next_state = m.wait_prev],
                       ms |-> m2, abort |-> ""]
         [] m.state = STATE_ARRIVED -> out(vel)
         [] m.state = STATE_ARRIVING_TO_CELL ->
            IF fid = NULL_FID THEN out(SetState(vel, STATE_MOVING, FALSE))
            ELSE IF ~e.assignment_ready THEN out(vel)
            ELSE IF ~e.in_range_of_cell
                 THEN out(SetState(vel, STATE_MOVING_IN_FORMATION, FALSE))
            ELSE IF e.arrived_at_cell
                 THEN out([SetState(vel, STATE_TURNING, FALSE)
                            EXCEPT !.flags = @ \cup {"SET_TARGET_DIR"},
                                   !.next_target_dir = IF e.facing THEN 0 ELSE 20])
            ELSE out(vel)

\* the first assertion of the tick task that fails for the entity before its
\* patch is computed: ent_desired_velocity, and move_velocity_work on the CPU
task_assert(st, uid, type) ==
    LET m  == st.ms[uid]
        fl == flock_for_ent(st, uid)
    IN IF m.state \notin {STATE_TURNING, STATE_SEEK_ENEMIES, STATE_ARRIVING_TO_CELL}
          /\ fl = 0
       THEN "desired_velocity_flock"
       ELSE IF type = "CPU" /\ m.state = STATE_SEEK_ENEMIES /\ fl # 0
       THEN "velocity_no_flock"
       ELSE IF type = "CPU" /\ m.state \notin {STATE_TURNING, STATE_SEEK_ENEMIES}
               /\ fl = 0
       THEN "velocity_flock"
       ELSE ""

(***************************************************************************)
(* entity_apply_update applies a patch on the owning thread                *)
(***************************************************************************)
\* ent_update_using_surround_field: the flag is set below the low water mark
\* and cleared at the high water mark.  The position of a target that the
\* snapshot does not have is read past the end of the table: the build
\* stops there, or goes on with whatever distance the read yields
ent_update_using_surround_field(st, uid) ==
    LET m  == st.ms[uid]
        dx == IF entity_exists(st, m.surround_target_uid)
              THEN Dist(st.positions[uid], st.positions[m.surround_target_uid])
              ELSE st.wild_dist
    IN IF ~entity_exists(st, m.surround_target_uid) /\ st.wild_crash
       THEN Check(st, FALSE, "surround_target_pos")
       ELSE IF ~m.using_surround_field
       THEN IF dx < SURROUND_LOW_WATER
            THEN [st EXCEPT !.ms[uid].using_surround_field = TRUE] ELSE st
       ELSE IF dx >= SURROUND_HIGH_WATER
            THEN [st EXCEPT !.ms[uid].using_surround_field = FALSE] ELSE st

entity_apply_update(st, uid, patch, exists) ==
    IF ~Ok(st) \/ ~exists \/ movestate_get(st, uid) = NoMs THEN st
    ELSE LET still_next == patch.next_state \in {STATE_ARRIVED, STATE_WAITING}
             update_field(s3) ==
                IF Ok(s3) /\ s3.ms[uid].state = STATE_SURROUND_ENTITY
                THEN ent_update_using_surround_field(s3, uid) ELSE s3
             wake(u) ==
                IF Ok(u) THEN [u EXCEPT !.ms[uid].state = patch.next_state] ELSE u
             \* the wake-up is the body of the if statement that precedes it
             set_moving(s2) ==
                IF "SET_STATE" \in patch.flags /\ still_next
                   /\ "SET_MOVING" \in patch.flags
                THEN wake(entity_unblock(s2, uid))
                ELSE s2
             has(flag) == flag \in patch.flags
             \* the position, the rotation and the interpolation members
             set_motion(s4) ==
                IF ~Ok(s4) THEN s4
                ELSE [s4 EXCEPT
                    !.xform[uid].at = IF has("SET_POSITION") THEN patch.next_pos ELSE @,
                    !.xform[uid].rot = IF has("SET_ROTATION") THEN patch.next_rot ELSE @,
                    !.ms[uid].step = IF has("SET_STEP") THEN patch.next_step ELSE @,
                    !.ms[uid].left = IF has("SET_LEFT") THEN patch.next_left ELSE @,
                    !.ms[uid].prev_rot = IF has("SET_PREV_ROT") THEN patch.next_prot ELSE @,
                    !.ms[uid].next_rot = IF has("SET_NEXT_ROT") THEN patch.next_nrot ELSE @,
                    !.ms[uid].target_dir =
                        IF has("SET_TARGET_DIR") THEN patch.next_target_dir ELSE @]
             set_velocity(s1) ==
                update_field(set_moving(set_motion(
                           IF Ok(s1) /\ "SET_VELOCITY" \in patch.flags
                           THEN [s1 EXCEPT !.ms[uid].velocity = patch.next_velocity]
                           ELSE s1)))
         IN set_velocity(
                IF "SET_STATE" \in patch.flags
                THEN IF still_next
                     THEN entity_finish_moving(st, uid, patch.next_state,
                                               patch.next_block)
                     ELSE [st EXCEPT !.ms[uid].state = patch.next_state]
                ELSE st)

(***************************************************************************)
(* The navigation tick task                                                *)
(***************************************************************************)
\* The position that is tested after the step is the new position, which
\* was found pathable, unless subticks are left: then it is the position
\* between the old and the new one that the entity is put at
PatchChoices(st, uid) ==
    {entity_compute_update(st, uid, e) :
        e \in {x \in EnvSet(st.ms[uid], G_Formation_GetForEnt(st, uid)) :
                    ~(x.moved /\ x.stuck /\ hz_count(st.hz) = 20)}}

\* fork_join_state_updates: every work item gets its patch; the result is
\* the set of outcomes over the answers of the environment
RECURSIVE fork_join_state_updates(_, _, _)
fork_join_state_updates(st, w, i) ==
    IF i > Len(w) \/ ~Ok(st) THEN {[st |-> st, work |-> w]}
    ELSE UNION {
        fork_join_state_updates(
            IF r.abort # "" THEN Check(st, FALSE, r.abort)
            ELSE [st EXCEPT !.ms[w[i].uid] = r.ms],
            [w EXCEPT ![i].patch = r.patch, ![i].computed = TRUE], i + 1) :
        r \in PatchChoices(st, w[i].uid)}

\* compute_desired_velocity and fork_join_velocity_computations: the first
\* work item whose assertion fails stops the program
velocity_phase(st, w, type) ==
    LET bad == {i \in 1..Len(w) : task_assert(st, w[i].uid, type) # ""}
    IN IF bad = {} THEN st
       ELSE Check(st, FALSE,
                  task_assert(st, w[CHOOSE i \in bad : \A j \in bad : i <= j].uid, type))

\* navigation_tick_task, run from where it is until it blocks or returns:
\* the set of [st, work, task] it can end in
navigation_tick_task(st, w, t, type) ==
    IF t = "ready"
    THEN LET updates(s1) ==
                IF ~Ok(s1) THEN {[st |-> s1, work |-> w, task |-> t]}
                ELSE IF type = "GPU"
                THEN {[st |-> s1, work |-> w, task |-> "blocked"]}
                ELSE {[st |-> o.st, work |-> o.work, task |-> "done"] :
                            o \in fork_join_state_updates(s1, w, 1)}
         IN updates(velocity_phase(st, w, type))
    ELSE IF t = "resumed"
    THEN {[st |-> o.st, work |-> o.work, task |-> "done"] :
                    o \in fork_join_state_updates(st, w, 1)}
    ELSE {[st |-> st, work |-> w, task |-> t]}

\* a nav_tick_finish_work that reports the work complete without running
\* or awaiting the task
nav_tick_finish_work_no_wait(st, w, t, type) ==
    {[st |-> st, work |-> w, task |-> "none", complete |-> TRUE]}

\* nav_tick_finish_work: Sched_RunSync runs the task unless it is blocked on
\* an event; the result says whether the work is complete
nav_tick_finish_work(st, w, t, type) ==
    IF t = "none" THEN {[st |-> st, work |-> w, task |-> "none", complete |-> TRUE]}
    ELSE {[st |-> o.st, work |-> o.work,
           task |-> IF o.task = "done" THEN "none" ELSE o.task,
           complete |-> o.task = "done"] :
                o \in navigation_tick_task(st, w, t, type)}

(***************************************************************************)
(* move_do_tick                                                            *)
(***************************************************************************)
RECURSIVE move_consume_work_results(_, _, _)
move_consume_work_results(st, w, gone) ==
    IF w = <<>> THEN st
    ELSE move_consume_work_results(
            entity_apply_update(st, Head(w).uid, Head(w).patch,
                                Head(w).uid \notin gone),
            Tail(w), gone)

RECURSIVE disband_loop(_, _)
disband_loop(st, i) ==
    IF i = 0 \/ ~Ok(st) THEN st
    ELSE LET members == st.flocks[i].ents IN
         IF \E u \in members : st.ms[u] = NoMs
         THEN Check(st, FALSE, "disband_ms")
         ELSE IF \A u \in members : st.ms[u].state = STATE_ARRIVED
         THEN LET RECURSIVE remove_units(_, _)
                  remove_units(s, us) ==
                    IF us = <<>> THEN s
                    ELSE remove_units(G_Formation_RemoveUnit(s, Head(us)), Tail(us))
                  del(s1) ==
                    IF Ok(s1) THEN [s1 EXCEPT !.flocks = vec_flock_del(s1.flocks, i)]
                    ELSE s1
              IN disband_loop(del(remove_units(st, SetToSeq(members))), i - 1)
         ELSE disband_loop(st, i - 1)

\* a disband_empty_flocks that disbands no flock
disband_no_flocks(st) == st

disband_empty_flocks(st) == disband_loop(st, Len(st.flocks))

\* the entities that get a work item, in the order of the table
WorkUids(st) == SetToSeq({u \in UIDs : st.ms[u] # NoMs /\ ~ent_still(st.ms[u])})

\* the formation queries that move_do_tick makes for every work item
RECURSIVE push_work_checks(_, _)
push_work_checks(st, us) ==
    IF us = <<>> THEN st
    ELSE push_work_checks(formation_for_ent(st, Head(us)), Tail(us))

\* nav_tick_submit_work: the tick task must have been created
nav_tick_submit_work(st) == Check(st, ~st.sched_full, "tick_task_created")

\* the distances that a read past the end of the snapshot's table may yield
\* when the patches are applied: one is made for every agent that surrounds
\* a target that the snapshot does not have
WildReads(st) ==
    IF \E u \in UIDs : /\ st.ms[u] # NoMs
                       /\ st.ms[u].state = STATE_SURROUND_ENTITY
                       /\ ~entity_exists(st, st.ms[u].surround_target_uid)
    THEN 0..SURROUND_HIGH_WATER ELSE {0}

\* uids that the game may have removed already: a Remove is pending for them
PendingRemove(queue) ==
    {queue[i].uid : i \in {j \in 1..Len(queue) : queue[j].type = "REMOVE"}}

\* the tables that the command handlers work on
Tables(st) == [ms |-> st.ms, flocks |-> st.flocks, blockers |-> st.blockers,
               positions |-> st.positions]

\* value of 'pre' when the handler that ran last popped no command
NoPre == [ms |-> <<>>]

TickSteps == <<"apply_patches", "drain_commands", "build_snapshot",
               "dispatch_work">>

\* every work item that is applied has had its patch computed by the task
AllComputed(w) == \A i \in 1..Len(w) : w[i].computed

\* move_do_tick that pops the commands before it applies the patches
move_do_tick_cmds_first(st, w, queue, gone) ==
    LET s0 == [st EXCEPT !.log = <<>>]
        result(s5) ==
            [st |-> s5, pre |-> s0, applied |-> Len(w),
             work |-> [i \in 1..Len(WorkUids(s5)) |->
                        [uid |-> WorkUids(s5)[i], patch |-> NoPatch,
                         computed |-> FALSE]]]
        dispatch(s4) ==
            result(nav_tick_submit_work(
                push_work_checks(Step(s4, "dispatch_work"), WorkUids(s4))))
        apply(s1) ==
            dispatch(Step(disband_empty_flocks(
                move_consume_work_results(
                    Step(s1, IF AllComputed(w) THEN "apply_patches"
                             ELSE "apply_uncomputed"), w, gone)),
                "build_snapshot"))
    IN apply(move_process_cmds(Step(s0, "drain_commands"), queue))

\* the state after move_do_tick, for the entities 'gone' that do not exist
\* any more
move_do_tick(st, w, queue, gone) ==
    LET s0 == [st EXCEPT !.log = <<>>]
        \* move_push_work: a work item for every entity that is not still
        result(s1, s5) ==
            [st |-> s5, pre |-> [s1 EXCEPT !.log = <<>>], applied |-> Len(w),
             work |-> [i \in 1..Len(WorkUids(s5)) |->
                        [uid |-> WorkUids(s5)[i], patch |-> NoPatch,
                         computed |-> FALSE]]]
        dispatch(s1, s4) ==
            result(s1, nav_tick_submit_work(
                push_work_checks(Step(s4, "dispatch_work"), WorkUids(s4))))
        drain(s1) ==
            dispatch(s1, Step(disband_empty_flocks(
                move_process_cmds(Step(s1, "drain_commands"), queue)),
                "build_snapshot"))
    IN drain(move_consume_work_results(
                Step(s0, IF AllComputed(w) THEN "apply_patches"
                         ELSE "apply_uncomputed"), w, gone))

(***************************************************************************)
(* Queries with read-your-writes over the pending commands                 *)
(***************************************************************************)
\* a snoop that returns the oldest matching command
snoop_oldest_command(queue, type, uid) ==
    LET hits == {i \in 1..Len(queue) :
                    ~queue[i].deleted /\ queue[i].type = type /\ queue[i].uid = uid}
    IN IF hits = {} THEN 0 ELSE CHOOSE i \in hits : \A j \in hits : i <= j

\* snoop_most_recent_command: the index of the most recently pushed command
\* of the type for the uid that is not deleted, or 0
snoop_most_recent_command(queue, type, uid) ==
    LET hits == {i \in 1..Len(queue) :
                    ~queue[i].deleted /\ queue[i].type = type /\ queue[i].uid = uid}
    IN IF hits = {} THEN 0 ELSE CHOOSE i \in hits : \A j \in hits : j <= i

NoAnswer == [ok |-> FALSE]

\* G_Move_GetMaxSpeed
G_Move_GetMaxSpeed(st, queue, uid) ==
    LET i == snoop_most_recent_command(queue, "SET_MAX_SPEED", uid) IN
    IF i # 0 THEN [ok |-> TRUE, speed |-> queue[i].a]
    ELSE IF movestate_get(st, uid) = NoMs THEN NoAnswer
    ELSE [ok |-> TRUE, speed |-> st.ms[uid].max_speed]

\* G_Move_GetDest
G_Move_GetDest(st, queue, uid) ==
    LET i  == snoop_most_recent_command(queue, "SET_DEST", uid)
        fl == flock_for_ent(st, uid)
    IN IF i # 0 THEN [ok |-> TRUE, dest |-> queue[i].a, attack |-> queue[i].b = 1]
       ELSE IF fl = 0 THEN NoAnswer
       ELSE [ok |-> TRUE, dest |-> st.flocks[fl].target_xz,
             attack |-> st.flocks[fl].dest_id[2]]

(***************************************************************************)
(* State machine                                                           *)
(***************************************************************************)
\* the state after G_Move_Init and G_Formation_Init, with the GPU setting;
\* what a wild read does is a property of the build
Start(gpu) ==
    /\ ms = [u \in UIDs |-> NoMs]
    /\ flocks = <<>>
    /\ blockers = [t \in Tiles |-> 0]
    /\ positions = [u \in UIDs |-> 0]
    /\ sel_radiuses = [u \in UIDs |-> 0]
    /\ ent_formation = [u \in UIDs |-> NULL_FID]
    /\ formations = <<>>
    /\ next_id = 0
    /\ sched_full = FALSE
    /\ xform = [u \in UIDs |-> [rot |-> 0, at |-> 20]]
    /\ cmds = <<>>
    /\ work = <<>>
    /\ task = "none"
    /\ work_type = "CPU"
    /\ use_gpu = gpu
    /\ tick_queued = FALSE
    /\ fresh_frame = FALSE
    /\ move_hz = MOVE_HZ_20
    /\ hz_dirty = FALSE
    /\ registered = {EVENT_20HZ_TICK}
    /\ work_hz = MOVE_HZ_20
    /\ queued_events = {}
    /\ interp_frame = TRUE
    /\ interpolated = FALSE
    /\ tick_log = <<>>
    /\ drained = <<>>
    /\ pre = NoPre
    /\ applied = 0
    /\ abort = ""

Init == Start(TRUE) /\ wild_crash = FALSE /\ plan = NoPlan

\* the engine's settings have turned the GPU off before the first tick
InitCPU == Start(FALSE) /\ wild_crash = FALSE /\ plan = NoPlan

\* the GPU is off, and the build is one with or without assertions
InitBuild == Start(FALSE) /\ wild_crash \in BOOLEAN /\ plan = NoPlan

\* the variables of the record that is threaded through the handlers
SetCore(st) ==
    /\ ms' = st.ms
    /\ flocks' = st.flocks
    /\ blockers' = st.blockers
    /\ positions' = st.positions
    /\ sel_radiuses' = st.sel_radiuses
    /\ ent_formation' = st.ent_formation
    /\ formations' = st.formations
    /\ next_id' = st.next_id
    /\ sched_full' = st.sched_full
    /\ wild_crash' = st.wild_crash
    /\ xform' = st.xform
    /\ abort' = st.abort
    /\ plan' = plan

coreVars == <<ms, flocks, blockers, positions, sel_radiuses,
              ent_formation, formations, next_id, sched_full, wild_crash,
              xform, abort, plan>>

\* a handler that pops no command ran last
NoDrain ==
    /\ tick_log' = <<>>
    /\ drained' = <<>>
    /\ pre' = NoPre
    /\ applied' = 0

\* the commands that the functions of the interface push
G_Move_AddEntity(uid, pos, radius) == MakeCmd("ADD", uid, pos, radius, {})
G_Move_RemoveEntity(uid) == MakeCmd("REMOVE", uid, 0, 0, {})
G_Move_Stop(uid) == MakeCmd("STOP", uid, 0, 0, {})
G_Move_SetDest(uid, dest, attack) ==
    MakeCmd("SET_DEST", uid, dest, IF attack THEN 1 ELSE 0, {})
G_Move_SetChangeDirection(uid, target) ==
    MakeCmd("CHANGE_DIRECTION", uid, target, 0, {})
G_Move_SetEnterRange(uid, target, range) ==
    MakeCmd("SET_ENTER_RANGE", uid, target, range, {})
G_Move_SetSeekEnemies(uid) == MakeCmd("SET_SEEK_ENEMIES", uid, 0, 0, {})
G_Move_SetSurroundEntity(uid, target) ==
    MakeCmd("SET_SURROUND_ENTITY", uid, target, 0, {})
G_Move_UpdatePos(uid, pos) == MakeCmd("UPDATE_POS", uid, pos, 0, {})
G_Move_Unblock(uid) == MakeCmd("UNBLOCK", uid, 0, 0, {})
G_Move_BlockAt(uid, pos) == MakeCmd("BLOCK", uid, pos, 0, {})
G_Move_UpdateFactionID(uid) == MakeCmd("UPDATE_FACTION_ID", uid, 0, 0, {})
G_Move_UpdateSelectionRadius(uid, radius) ==
    MakeCmd("UPDATE_SELECTION_RADIUS", uid, radius, 0, {})
G_Move_SetMaxSpeed(uid, speed) == MakeCmd("SET_MAX_SPEED", uid, speed, 0, {})
\* the uid field of the command holds the formation type: 1 is FORMATION_RANK
G_Move_ArrangeInFormation(sel, target, rank, attack) ==
    MakeCmd("MAKE_FLOCKS", IF rank THEN 1 ELSE 0, target,
            IF attack THEN 1 ELSE 0, sel)

\* every command that the interface can push
AllCommands ==
    {G_Move_AddEntity(u, p, r) : u \in UIDs, p \in Tiles, r \in Radii}
    \cup {G_Move_RemoveEntity(u) : u \in UIDs}
    \cup {G_Move_Stop(u) : u \in UIDs}
    \cup {G_Move_SetDest(u, d, a) : u \in UIDs, d \in DestPts, a \in BOOLEAN}
    \cup {G_Move_SetChangeDirection(u, d) : u \in UIDs, d \in Dirs}
    \cup {G_Move_SetEnterRange(u, t, r) : u \in UIDs, t \in UIDs, r \in Radii}
    \cup {G_Move_SetSeekEnemies(u) : u \in UIDs}
    \cup {G_Move_SetSurroundEntity(u, t) : u \in UIDs, t \in UIDs}
    \cup {G_Move_UpdatePos(u, p) : u \in UIDs, p \in Tiles}
    \cup {G_Move_Unblock(u) : u \in UIDs}
    \cup {G_Move_BlockAt(u, p) : u \in UIDs, p \in Tiles}
    \cup {G_Move_UpdateFactionID(u) : u \in UIDs}
    \cup {G_Move_UpdateSelectionRadius(u, r) : u \in UIDs, r \in Radii}
    \cup {G_Move_SetMaxSpeed(u, v) : u \in UIDs, v \in Speeds}
    \cup {G_Move_ArrangeInFormation(sel, d, rank, a) :
            sel \in (SUBSET UIDs) \ {{}}, d \in DestPts, rank \in BOOLEAN,
            a \in BOOLEAN}

\* number of formations that the pending commands create at most
PendingFormations ==
    Cardinality({i \in 1..Len(cmds) : cmds[i].type = "MAKE_FLOCKS"})

\* the tick rate and the registration of move_tick; the events and the
\* interpolation of the frame
hzVars == <<move_hz, hz_dirty, registered, work_hz>>
frameVars == <<queued_events, interp_frame, interpolated>>

\* move_push_cmd, called by one of the functions of the interface with a
\* command out of the set C
move_push_cmd(C) ==
    /\ abort = ""
    /\ Len(cmds) < MaxQueue
    /\ \E cmd \in C :
        /\ cmd.type = "MAKE_FLOCKS" => next_id + PendingFormations < MaxFormations
        /\ cmds' = Append(cmds, cmd)
    /\ NoDrain
    /\ UNCHANGED <<coreVars, work, task, work_type, use_gpu, tick_queued,
                   fresh_frame, hzVars, frameVars>>

\* the engine starts the next frame: g_frame_idx is incremented, and the
\* tick events that are due, one of the sets in E, are queued
NextFrame(E) ==
    /\ abort = ""
    /\ \E evs \in E : queued_events' = evs
    /\ fresh_frame' = TRUE
    /\ interp_frame' = FALSE
    /\ interpolated' = FALSE
    /\ NoDrain
    /\ UNCHANGED <<coreVars, cmds, work, task, work_type, use_gpu, tick_queued,
                   hzVars>>

\* the other tasks of the engine take the last free task of the scheduler,
\* or give one back
SchedLoad ==
    /\ abort = ""
    /\ sched_full' = ~sched_full
    /\ wild_crash' \in BOOLEAN
    /\ NoDrain
    /\ UNCHANGED <<ms, flocks, blockers, positions, sel_radiuses, ent_formation,
                   formations, next_id, xform, abort, plan, cmds, work, task,
                   work_type,
                   use_gpu, tick_queued, fresh_frame, hzVars, frameVars>>

G_Move_SetUseGPU ==
    /\ abort = ""
    /\ use_gpu' = ~use_gpu
    /\ NoDrain
    /\ UNCHANGED <<coreVars, cmds, work, task, work_type, tick_queued,
                   fresh_frame, hzVars, frameVars>>

G_Move_SetTickHz ==
    /\ abort = ""
    /\ \E hz \in movement_hz :
        /\ hz_dirty' = (move_hz # hz)
        /\ move_hz' = hz
    /\ NoDrain
    /\ UNCHANGED <<coreVars, cmds, work, task, work_type, use_gpu, tick_queued,
                   fresh_frame, registered, work_hz, frameVars>>

\* the scheduler runs the tick task on a worker
RunTickTask ==
    /\ abort = ""
    /\ task \in {"ready", "resumed"}
    /\ \E o \in navigation_tick_task(Core, work, task, work_type) :
        /\ SetCore(o.st)
        /\ work' = o.work
        /\ task' = o.task
    /\ NoDrain
    /\ UNCHANGED <<cmds, work_type, use_gpu, tick_queued, fresh_frame, hzVars,
                   frameVars>>

\* EVENT_UPDATE_START wakes the task that waits for the GPU
GpuEvent ==
    /\ abort = ""
    /\ task = "blocked"
    /\ task' = "resumed"
    /\ NoDrain
    /\ UNCHANGED <<coreVars, cmds, work, work_type, use_gpu, tick_queued,
                   fresh_frame, hzVars, frameVars>>

\* move_handle_hz_update: the events that move_tick is registered for after
\* the tick that the event 'curr' started
move_handle_hz_update(curr) ==
    IF ~hz_dirty \/ curr = event_for_hz(move_hz) THEN registered
    ELSE (registered \ {curr}) \cup {event_for_hz(move_hz)}

\* the common part of move_tick and handle_queued_tick, for the event
\* 'curr' of the tick
TickOrQueue(curr) ==
    \E f \in nav_tick_finish_work(Core, work, task, work_type) :
        IF ~Ok(f.st)
        THEN /\ SetCore(f.st)
             /\ NoDrain
             /\ UNCHANGED <<cmds, work, task, work_type, use_gpu, tick_queued,
                            fresh_frame, hzVars>>
        ELSE IF ~f.complete
        THEN /\ SetCore(f.st)
             /\ NoDrain
             /\ work' = f.work
             /\ task' = f.task
             /\ tick_queued' = TRUE
             /\ UNCHANGED <<cmds, work_type, use_gpu, fresh_frame, hzVars>>
        ELSE \E gone \in SUBSET PendingRemove(cmds) :
             \E wd \in WildReads(f.st) :
             \E r \in {move_do_tick([f.st EXCEPT !.wild_dist = wd], f.work,
                                    cmds, gone)} :
                /\ SetCore(r.st)
                /\ tick_log' = r.st.log
                /\ drained' = cmds
                /\ pre' = r.pre
                /\ applied' = r.applied
                /\ cmds' = <<>>
                /\ work' = r.work
                /\ task' = IF Ok(r.st) THEN "ready" ELSE "none"
                /\ work_type' = IF use_gpu THEN "GPU" ELSE "CPU"
                /\ tick_queued' = FALSE
                /\ fresh_frame' = FALSE
                /\ hz_dirty' = FALSE
                /\ registered' = move_handle_hz_update(curr)
                /\ work_hz' = event_to_hz(curr)
                /\ UNCHANGED <<use_gpu, move_hz>>

\* move_tick: the handler of a tick event that it is registered for; a tick
\* event in the frame of the last tick is dropped
move_tick ==
    /\ abort = ""
    /\ \E curr \in registered \cap queued_events :
        IF fresh_frame THEN TickOrQueue(curr)
        ELSE /\ NoDrain
             /\ UNCHANGED <<coreVars, cmds, work, task, work_type, use_gpu,
                            tick_queued, fresh_frame, hzVars>>
    /\ UNCHANGED frameVars

\* on_update: handle_queued_tick
on_update ==
    /\ abort = ""
    /\ tick_queued
    /\ TickOrQueue(event_for_hz(work_hz))
    /\ UNCHANGED frameVars

\* entity_interpolation_step: the entity is put at the fraction of the way
\* from prev_pos to next_pos that the steps which are left leave open
entity_interpolation_step(st, uid, steps) ==
    LET m        == st.ms[uid]
        left     == m.left - (IF steps < m.left THEN steps ELSE m.left)
        fraction == 20 - m.step * left
    IN IF ~Ok(st) \/ m.left = 0 THEN st
       ELSE Check([st EXCEPT !.ms[uid].left = left, !.xform[uid].at = fraction],
                  fraction >= 0 /\ fraction <= 20, "interpolation_fraction")

\* interpolate_tick: the handler of EVENT_20HZ_TICK that moves the entities
\* by one step of the interpolation, or by two when updates are coalesced
interpolate_tick ==
    /\ abort = ""
    /\ EVENT_20HZ_TICK \in queued_events
    /\ IF ~fresh_frame \/ tick_queued \/ interp_frame
       THEN UNCHANGED <<coreVars, interp_frame, interpolated>>
       ELSE IF event_for_hz(move_hz) \in queued_events
       THEN interp_frame' = TRUE /\ UNCHANGED <<coreVars, interpolated>>
       ELSE /\ interp_frame' = TRUE
            /\ interpolated' = TRUE
            /\ \E coalese \in BOOLEAN :
                 LET step_all(s1, u) ==
                        IF s1.ms[u] = NoMs THEN s1
                        ELSE entity_interpolation_step(s1, u, IF coalese THEN 2 ELSE 1)
                 IN SetCore(step_all(step_all(Core, 1), 2))
    /\ NoDrain
    /\ UNCHANGED <<cmds, work, task, work_type, use_gpu, tick_queued,
                   fresh_frame, hzVars, queued_events>>

\* a G_Move_FlushWork that cancels no task and leaves the work items of the
\* last tick in the buffer
G_Move_FlushWork_keep_work ==
    /\ abort = ""
    /\ \E s1 \in {move_process_cmds(
                    Step(Step([Core EXCEPT !.log = <<>>], "discard_work"),
                         "drain_commands"), cmds)} :
        /\ SetCore(s1)
        /\ tick_log' = s1.log
        /\ drained' = cmds
        /\ pre' = [Core EXCEPT !.log = <<>>]
        /\ applied' = 0
        /\ cmds' = <<>>
    /\ UNCHANGED <<work, task, work_type, use_gpu, tick_queued, fresh_frame,
                   hzVars, frameVars>>

\* G_Move_FlushWork: a task that cannot be run to its end is cancelled by
\* nav_cancel_gpu_work
G_Move_FlushWork ==
    /\ abort = ""
    /\ \E f \in nav_tick_finish_work(Core, work, task, work_type) :
      \E s1 \in {move_process_cmds(
                    Step(Step(IF f.complete THEN [f.st EXCEPT !.log = <<>>]
                              ELSE Step([f.st EXCEPT !.log = <<>>], "cancel_task"),
                              "discard_work"),
                         "drain_commands"), cmds)} :
        /\ SetCore(s1)
        /\ tick_log' = s1.log
        /\ drained' = cmds
        /\ pre' = [f.st EXCEPT !.log = <<>>]
        /\ applied' = 0
        /\ cmds' = <<>>
        /\ work' = <<>>
        /\ task' = "none"
    /\ UNCHANGED <<work_type, use_gpu, tick_queued, fresh_frame, hzVars,
                   frameVars>>

\* the session ends and the next one begins: G_Move_Shutdown, which cancels
\* a task that cannot be run to its end and frees the tables and the work
\* buffer, and then G_Move_Init.  No handler runs in between.  The static
\* settings keep their values, and move_tick keeps a registration that
\* G_Move_Shutdown did not remove
G_Move_Shutdown ==
    /\ abort = ""
    /\ \E f \in nav_tick_finish_work(Core, work, task, work_type) :
        IF ~Ok(f.st)
        THEN /\ SetCore(f.st)
             /\ NoDrain
             /\ UNCHANGED <<cmds, work, task, work_type, tick_queued, registered,
                            work_hz>>
        ELSE /\ SetCore([f.st EXCEPT
                            !.ms = [u \in UIDs |-> NoMs], !.flocks = <<>>,
                            !.blockers = [t \in Tiles |-> 0],
                            !.positions = [u \in UIDs |-> 0],
                            !.sel_radiuses = [u \in UIDs |-> 0],
                            !.ent_formation = [u \in UIDs |-> NULL_FID],
                            !.formations = <<>>, !.next_id = 0])
             /\ tick_log' = IF f.complete THEN <<"shutdown">>
                            ELSE <<"cancel_task", "shutdown">>
             /\ drained' = <<>>
             /\ pre' = NoPre
             /\ applied' = 0
             /\ cmds' = <<>>
             /\ work' = <<>>
             /\ task' = "none"
             /\ work_type' = "CPU"
             /\ tick_queued' = FALSE
             /\ registered' = (registered \ {event_for_hz(move_hz)})
                                \cup {event_for_hz(move_hz)}
             /\ work_hz' = MOVE_HZ_20
    /\ UNCHANGED <<use_gpu, fresh_frame, move_hz, hz_dirty, frameVars>>

\* G_Move_SaveState: the flocks in the order of s_flocks, and of every agent
\* of the table the members that are written; last_stop_pos and
\* last_stop_radius are not.  The records are listed here by uid, where the
\* code lists them in the order of the table
G_Move_SaveState(st) ==
    LET saved(uid) ==
            [uid |-> uid, state |-> st.ms[uid].state,
             max_speed |-> st.ms[uid].max_speed,
             velocity |-> st.ms[uid].velocity,
             next_rot |-> st.ms[uid].next_rot, prev_rot |-> st.ms[uid].prev_rot,
             step |-> st.ms[uid].step, left |-> st.ms[uid].left,
             blocking |-> st.ms[uid].blocking,
             wait_prev |-> st.ms[uid].wait_prev,
             wait_ticks_left |-> st.ms[uid].wait_ticks_left,
             surround_target_uid |-> st.ms[uid].surround_target_uid,
             using_surround_field |-> st.ms[uid].using_surround_field,
             target_dir |-> st.ms[uid].target_dir]
    IN [flocks |-> st.flocks,
        ents |-> [i \in 1..Cardinality({u \in UIDs : st.ms[u] # NoMs}) |->
                    saved(SetToSeq({u \in UIDs : st.ms[u] # NoMs})[i])]]

\* the savefiles that are loaded at any time: no flock and at most one agent,
\* which was saved Arrived or Moving, blocking or not
SavedEnts ==
    {[flocks |-> <<>>, ents |-> <<>>]} \cup
    {[flocks |-> <<>>,
      ents |-> <<[uid |-> u, state |-> s, max_speed |-> v, velocity |-> 0,
                  next_rot |-> 0, prev_rot |-> 0, step |-> 0, left |-> 0,
                  blocking |-> b, wait_prev |-> STATE_MOVING,
                  wait_ticks_left |-> 0, surround_target_uid |-> 0,
                  using_surround_field |-> FALSE, target_dir |-> 0]>>] :
        u \in {1}, s \in {STATE_ARRIVED, STATE_MOVING}, v \in Speeds,
        b \in BOOLEAN}

\* the loop of G_Move_LoadState over the saved agents: an agent that is not
\* in the table ends the load with an error; the members of the others are
\* overwritten by the saved ones, and an agent that was saved non-blocking
\* is unblocked
RECURSIVE load_ents(_, _)
\* a load that copies the saved blocking flag and leaves the tiles alone
load_ents_copy_flag(st, save) ==
    IF save = <<>> \/ ~Ok(st) \/ st.ms[Head(save).uid] = NoMs THEN st
    ELSE load_ents([st EXCEPT !.ms[Head(save).uid] =
                        [f \in DOMAIN st.ms[Head(save).uid] |->
                            IF f \in {"last_stop_pos", "last_stop_radius"}
                            THEN st.ms[Head(save).uid][f] ELSE Head(save)[f]]],
                   Tail(save))

load_ents(st, save) ==
    IF save = <<>> \/ ~Ok(st) THEN st
    ELSE LET rec == Head(save)
             unblock(s1) ==
                IF Ok(s1) /\ ~rec.blocking THEN entity_unblock(s1, rec.uid) ELSE s1
         IN IF st.ms[rec.uid] = NoMs THEN st
            ELSE load_ents(
                    unblock(Check([st EXCEPT !.ms[rec.uid] =
                                     [f \in DOMAIN st.ms[rec.uid] |->
                                        IF f \in {"blocking", "last_stop_pos",
                                                  "last_stop_radius"}
                                        THEN st.ms[rec.uid][f] ELSE rec[f]]],
                                  st.ms[rec.uid].blocking, "load_blocking")),
                    Tail(save))

\* a load that reads the agents and makes no flock
load_state_no_flocks(st, queue, save) ==
    load_ents(move_process_cmds(
                Step(Step(st, "update_gamestate"), "drain_commands"), queue),
              save.ents)

\* G_Move_LoadState after move_update_gamestate: it pops the commands,
\* requires that there is no flock, makes the saved flocks and overwrites
\* the agents
load_state(st, queue, save) ==
    LET flocks_in(s1) ==
            IF Ok(s1) THEN [s1 EXCEPT !.flocks = save.flocks] ELSE s1
        no_flocks(s1) == Check(s1, s1.flocks = <<>>, "load_no_flocks")
    IN load_ents(flocks_in(no_flocks(move_process_cmds(
            Step(Step(st, "update_gamestate"), "drain_commands"), queue))),
         save.ents)

\* the tick task is in flight: created, and not yet run to its end
InFlight == task \in {"ready", "blocked", "resumed"}

\* G_Move_LoadState: the snapshot is released and copied anew, with nothing
\* done about a tick task that is in flight; a task that reads the snapshot
\* meanwhile races with the release, and the program may crash
G_Move_LoadState ==
    /\ abort = ""
    /\ \E save \in SavedEnts :
       \E crash \in {FALSE, InFlight} :
       \E s2 \in {IF crash
                   THEN Check(move_process_cmds(
                                Step(Step([Core EXCEPT !.log = <<>>],
                                          "update_gamestate"),
                                     "drain_commands"), cmds),
                              FALSE, "gamestate_race")
                   ELSE load_state([Core EXCEPT !.log = <<>>], cmds, save)} :
        /\ SetCore(s2)
        /\ tick_log' = s2.log
        /\ drained' = cmds
        /\ pre' = [Core EXCEPT !.log = <<>>]
        /\ applied' = 0
        /\ cmds' = <<>>
    /\ UNCHANGED <<work, task, work_type, use_gpu, tick_queued, fresh_frame,
                   hzVars, frameVars>>

Next ==
    \/ move_push_cmd(AllCommands)
    \/ NextFrame(SUBSET TickEvents)
    \/ G_Move_SetUseGPU
    \/ G_Move_SetTickHz
    \/ interpolate_tick
    \/ RunTickTask
    \/ GpuEvent
    \/ move_tick
    \/ on_update
    \/ G_Move_FlushWork
    \/ G_Move_Shutdown
    \/ G_Move_LoadState
    \/ SchedLoad

Spec == Init /\ [][Next]_vars

(***************************************************************************)
(* One agent that gets every command of its life cycle; the velocities are *)
(* computed on the CPU, so that every tick finds its work complete.  The   *)
(* agent is added and blocked on the first two tiles of the strip.         *)
(***************************************************************************)
AgentCmds ==
    {G_Move_AddEntity(1, p, 0) : p \in {0, 1}}
    \cup {G_Move_RemoveEntity(1), G_Move_Stop(1), G_Move_Unblock(1)}
    \cup {G_Move_SetDest(1, d, FALSE) : d \in DestPts}
    \cup {G_Move_SetMaxSpeed(1, v) : v \in Speeds}
    \cup {G_Move_BlockAt(1, p) : p \in {0, 1}}

NextAgent ==
    \/ move_push_cmd(AgentCmds)
    \/ NextFrame({TickEvents})
    \/ move_tick

SpecAgent == InitCPU /\ [][NextAgent]_vars

(***************************************************************************)
(* One agent that is sent to one destination; the velocities are computed  *)
(* on the GPU, so that the tick task blocks and a tick can find its work   *)
(* incomplete.                                                             *)
(***************************************************************************)
TickCmds ==
    {G_Move_AddEntity(1, 0, 0), G_Move_SetMaxSpeed(1, 1),
     G_Move_SetDest(1, 1, FALSE)}

NextTick ==
    \/ move_push_cmd(TickCmds)
    \/ NextFrame({TickEvents})
    \/ G_Move_SetUseGPU
    \/ RunTickTask
    \/ GpuEvent
    \/ move_tick
    \/ on_update
    \/ G_Move_FlushWork
    \/ G_Move_Shutdown

SpecTick == Init /\ [][NextTick]_vars

(***************************************************************************)
(* One agent that is sent to a destination, alone or in a formation, while *)
(* the scheduler runs out of free tasks and gets them back; the velocities *)
(* are computed on the CPU.                                                *)
(***************************************************************************)
SchedCmds ==
    {G_Move_AddEntity(1, 0, 0), G_Move_SetMaxSpeed(1, 1),
     G_Move_SetDest(1, 1, FALSE),
     G_Move_ArrangeInFormation({1}, 1, TRUE, FALSE)}

NextSched ==
    \/ move_push_cmd(SchedCmds)
    \/ NextFrame({TickEvents})
    \/ SchedLoad
    \/ RunTickTask
    \/ move_tick

SpecSched == InitCPU /\ [][NextSched]_vars

(***************************************************************************)
(* Two agents that are sent to the same destination, one after the other   *)
(* or together, and are stopped; the velocities are computed on the CPU.   *)
(***************************************************************************)
FlockCmds ==
    {G_Move_AddEntity(u, 0, 0) : u \in UIDs}
    \cup {G_Move_SetMaxSpeed(u, 1) : u \in UIDs}
    \cup {G_Move_SetDest(u, 1, FALSE) : u \in UIDs}
    \cup {G_Move_Stop(1)}

NextFlock ==
    \/ move_push_cmd(FlockCmds)
    \/ NextFrame({TickEvents})
    \/ move_tick

SpecFlock == InitCPU /\ [][NextFlock]_vars

(***************************************************************************)
(* The agent of the ticks on the GPU, and a savefile that is loaded at any *)
(* time.                                                                   *)
(***************************************************************************)
NextLoad ==
    \/ move_push_cmd(TickCmds)
    \/ NextFrame({TickEvents})
    \/ RunTickTask
    \/ GpuEvent
    \/ move_tick
    \/ on_update
    \/ G_Move_FlushWork
    \/ G_Move_LoadState

SpecLoad == Init /\ [][NextLoad]_vars

(***************************************************************************)
(* An agent and a target that it surrounds; the target is moved along the  *)
(* strip and removed.  The velocities are computed on the CPU, by a build  *)
(* with or without assertions.                                             *)
(***************************************************************************)
\* The game adds an entity that it does not have, and names a target in a
\* command while it has the target: when the commands that were pushed
\* before have added it and not removed it
TargetCmds ==
    {G_Move_SetMaxSpeed(1, 1), G_Move_RemoveEntity(2)}
    \cup {G_Move_UpdatePos(2, p) : p \in Tiles}
    \cup (IF move_process_cmds(Core, cmds).ms[1] = NoMs
          THEN {G_Move_AddEntity(1, 0, 0)} ELSE {})
    \cup (IF move_process_cmds(Core, cmds).ms[2] = NoMs
          THEN {G_Move_AddEntity(2, 2, 0)}
          ELSE {G_Move_SetSurroundEntity(1, 2)})

NextTarget ==
    \/ move_push_cmd(TargetCmds)
    \/ NextFrame({TickEvents})
    \/ RunTickTask
    \/ move_tick

SpecTarget == InitBuild /\ [][NextTarget]_vars

(***************************************************************************)
(* An agent that is sent into the range of a target, and is blocked,       *)
(* unblocked and stopped on its way; the velocities are computed on the    *)
(* CPU.                                                                    *)
(***************************************************************************)
\* The game adds an entity that it does not have, and names a target in a
\* command while it has the target
RangeCmds ==
    {G_Move_SetMaxSpeed(1, 1), G_Move_UpdatePos(2, 1), G_Move_Stop(1),
     G_Move_BlockAt(1, 0), G_Move_Unblock(1)}
    \cup (IF move_process_cmds(Core, cmds).ms[1] = NoMs
          THEN {G_Move_AddEntity(1, 0, 0)} ELSE {})
    \cup (IF move_process_cmds(Core, cmds).ms[2] = NoMs
          THEN {G_Move_AddEntity(2, 2, 0)}
          ELSE {G_Move_SetEnterRange(1, 2, 1)})

NextRange ==
    \/ move_push_cmd(RangeCmds)
    \/ NextFrame({TickEvents})
    \/ RunTickTask
    \/ move_tick

SpecRange == InitCPU /\ [][NextRange]_vars

(***************************************************************************)
(* An agent that stands while the game moves it, changes its faction and   *)
(* its selection radius, blocks and unblocks it and removes it, beside a   *)
(* second agent that stands on the middle tile.                            *)
(***************************************************************************)
BlockCmds ==
    {G_Move_RemoveEntity(u) : u \in UIDs}
    \cup {G_Move_UpdatePos(1, p) : p \in Tiles}
    \cup {G_Move_UpdateSelectionRadius(1, r) : r \in Radii}
    \cup {G_Move_BlockAt(1, p) : p \in Tiles}
    \cup {G_Move_UpdateFactionID(1), G_Move_Unblock(1)}
    \cup (IF move_process_cmds(Core, cmds).ms[1] = NoMs
          THEN {G_Move_AddEntity(1, p, r) : p \in Tiles, r \in Radii} ELSE {})
    \cup (IF move_process_cmds(Core, cmds).ms[2] = NoMs
          THEN {G_Move_AddEntity(2, 1, 1)} ELSE {})

NextBlock ==
    \/ move_push_cmd(BlockCmds)
    \/ NextFrame({TickEvents})
    \/ move_tick

SpecBlock == InitCPU /\ [][NextBlock]_vars

(***************************************************************************)
(* Two agents that are sent to two destinations, alone, together, or after *)
(* one another and into the range of one another; the first is stopped,    *)
(* the second removed; the velocities are computed on the CPU.             *)
(***************************************************************************)
\* The game pushes one command between two ticks: it adds the second agent
\* and then the first, gives them their speed, and then sends them, naming
\* the second agent as a target while it has it; the last thing it does is
\* to arrange both in a formation
JoinCmds ==
    IF cmds # <<>> \/ next_id > 0 THEN {}
    ELSE IF ms[2] = NoMs /\ ms[1] = NoMs THEN {G_Move_AddEntity(2, 0, 0)}
    ELSE IF ms[1] = NoMs THEN {G_Move_AddEntity(1, 0, 0)}
    ELSE UNION {IF ms[u] # NoMs /\ ms[u].max_speed = 0
                THEN {G_Move_SetMaxSpeed(u, 1)} ELSE {} : u \in UIDs}
         \cup {G_Move_SetDest(1, d, FALSE) : d \in {0, 1}}
         \cup {G_Move_SetDest(2, 1, FALSE),
               G_Move_ArrangeInFormation(UIDs, 1, FALSE, FALSE),
               G_Move_Stop(1), G_Move_RemoveEntity(2)}
         \cup (IF ms[2] = NoMs THEN {}
               ELSE {G_Move_SetEnterRange(1, 2, 1),
                     G_Move_SetSurroundEntity(1, 2)})

NextJoin ==
    \/ move_push_cmd(JoinCmds)
    \/ NextFrame({TickEvents})
    \/ move_tick

SpecJoin == InitCPU /\ [][NextJoin]_vars

(***************************************************************************)
(* One agent that is sent to a destination at either tick rate, with the   *)
(* subticks of the interpolation; the velocities are computed on the CPU.  *)
(* The game adds the agent, gives it its speed, and then sends it; a frame *)
(* has the event of 20 Hz, alone or with the event of 10 Hz.               *)
(***************************************************************************)
NextMotion ==
    \/ move_push_cmd(IF move_process_cmds(Core, cmds).ms[1] = NoMs
                     THEN {G_Move_AddEntity(1, 0, 0)}
                     ELSE IF move_process_cmds(Core, cmds).ms[1].max_speed = 0
                     THEN {G_Move_SetMaxSpeed(1, 1)}
                     ELSE {G_Move_SetDest(1, 1, FALSE)})
    \/ NextFrame({{EVENT_20HZ_TICK}, TickEvents})
    \/ G_Move_SetTickHz
    \/ RunTickTask
    \/ move_tick
    \/ interpolate_tick

SpecMotion == InitCPU /\ [][NextMotion]_vars

(***************************************************************************)
(* One agent that is sent to a destination and is turned towards 25        *)
(* degrees, at either tick rate; the velocities are computed on the CPU,   *)
(* and every tick runs the task of the tick before to its end.             *)
(***************************************************************************)
NextTurn ==
    \/ move_push_cmd(IF move_process_cmds(Core, cmds).ms[1] = NoMs
                     THEN {G_Move_AddEntity(1, 0, 0)}
                     ELSE IF move_process_cmds(Core, cmds).ms[1].max_speed = 0
                     THEN {G_Move_SetMaxSpeed(1, 1)}
                     ELSE {G_Move_SetDest(1, 1, FALSE),
                           G_Move_SetChangeDirection(1, 25)})
    \/ NextFrame({TickEvents})
    \/ G_Move_SetTickHz
    \/ move_tick

SpecTurn == InitCPU /\ [][NextTurn]_vars

(***************************************************************************)
(* The frames of the engine with no entity: the tick events that are due   *)
(* in a frame are any of the events, the tick rate is changed, and the     *)
(* handlers of a frame run in any order.                                   *)
(***************************************************************************)
NextFrames ==
    \/ NextFrame(SUBSET TickEvents)
    \/ G_Move_SetTickHz
    \/ RunTickTask
    \/ GpuEvent
    \/ move_tick
    \/ on_update
    \/ interpolate_tick
    \/ G_Move_FlushWork

SpecFrames == Init /\ [][NextFrames]_vars

(***************************************************************************)
(* formation.c: the placement of the cells of the subformations on the     *)
(* occupied field.  The field is a strip of OCCUPIED_FIELD_RES tiles, and   *)
(* every subformation is one row of two cells.  The positions that the     *)
(* geometry of the formation gives are inputs: the tile that a cell aims   *)
(* for and the step along the anchors are any of the field.                *)
(***************************************************************************)
\* M_Tile_AllUnderCircle with the resolution of the field: the tiles of the
\* field under the circle around the centre of the tile
M_Tile_AllUnderCircle(tile, radius) ==
    {t \in 0..(OCCUPIED_FIELD_RES - 1) :
        (IF t >= tile THEN t - tile ELSE tile - t) <= radius}

\* nearest_free_tile: the tile itself, the tile one step along the anchors,
\* or the nearest tile of the rings around it; -1 when there is none
nearest_free_tile(curr, iid, shift, occupied, islands) ==
    LET free(t) == occupied[t] = "FREE" /\ islands[t] = iid
        ring(t) == t > 0 /\ t < OCCUPIED_FIELD_RES /\ free(t)
        RECURSIVE search(_)
        search(delta) ==
            IF delta >= OCCUPIED_FIELD_RES THEN -1
            ELSE IF ring(curr - delta) THEN curr - delta
            ELSE IF ring(curr + delta) THEN curr + delta
            ELSE search(delta + 1)
    IN IF occupied[curr] = "FREE" THEN curr
       ELSE IF /\ curr + shift # curr
               /\ curr + shift >= 0 /\ curr + shift < OCCUPIED_FIELD_RES
               /\ free(curr + shift)
            THEN curr + shift
       ELSE search(1)

\* a cell that is allocated on its own layer only
try_occupy_cell_own_layer(curr, iid, radius, layer, occupied, islands) ==
    IF \E t \in M_Tile_AllUnderCircle(curr, radius) :
            \/ islands[t] # iid
            \/ occupied[layer][t] \notin {"FREE", "VISITED"}
    THEN [success |-> FALSE, occupied |-> occupied]
    ELSE [success |-> TRUE,
          occupied |-> [occupied EXCEPT ![layer] =
                          [t \in DOMAIN occupied[layer] |->
                              IF t \in M_Tile_AllUnderCircle(curr, radius)
                              THEN "ALLOCATED" ELSE occupied[layer][t]]]]

\* try_occupy_cell: the tiles under the cell must be of the island and free
\* or visited on the layer of the cell; they are allocated on every layer
try_occupy_cell(curr, iid, radius, layer, occupied, islands) ==
    LET under == M_Tile_AllUnderCircle(curr, radius) IN
    IF \/ under = {}
       \/ \E t \in under : \/ islands[t] # iid
                           \/ occupied[layer][t] \notin {"FREE", "VISITED"}
    THEN [success |-> FALSE, occupied |-> occupied]
    ELSE [success |-> TRUE,
          occupied |-> [j \in DOMAIN occupied |->
                          [t \in DOMAIN occupied[j] |->
                              IF t \in under THEN "ALLOCATED"
                              ELSE occupied[j][t]]]]

\* place_cell from the target tile on: the traversal that marks the tiles
\* where the cell does not fit as visited, and resets them at the end
place_cell(target_tile, dest_tile, shift, radius, layer, occupied, islands) ==
    LET iid == islands[layer][dest_tile]
        reset(occ, visited) ==
            [occ EXCEPT ![layer] = [t \in DOMAIN occ[layer] |->
                IF t \in visited /\ occ[layer][t] = "VISITED" THEN "FREE"
                ELSE occ[layer][t]]]
        RECURSIVE visit(_, _, _)
        visit(occ, curr, visited) ==
            IF try_occupy_cell(curr, iid, radius, layer, occ, islands[layer]).success
            THEN [success |-> TRUE, tile |-> curr,
                  occupied |-> reset(try_occupy_cell(curr, iid, radius, layer, occ,
                                                     islands[layer]).occupied,
                                     visited)]
            ELSE IF nearest_free_tile(curr, iid, shift,
                        [occ[layer] EXCEPT ![curr] = "VISITED"],
                        islands[layer]) = -1
            THEN [success |-> FALSE, tile |-> -1,
                  occupied |-> reset([occ EXCEPT ![layer][curr] = "VISITED"],
                                     visited \cup {curr})]
            ELSE visit([occ EXCEPT ![layer][curr] = "VISITED"],
                       nearest_free_tile(curr, iid, shift,
                            [occ[layer] EXCEPT ![curr] = "VISITED"],
                            islands[layer]),
                       visited \cup {curr})
    IN IF nearest_free_tile(target_tile, iid, shift, occupied[layer],
                            islands[layer]) = -1
       THEN [success |-> FALSE, tile |-> -1, occupied |-> occupied]
       ELSE visit(occupied,
                  nearest_free_tile(target_tile, iid, shift, occupied[layer],
                                    islands[layer]),
                  {})

\* G_Formation_Create has initialized the fields of both layers and the
\* subformations: the cells are not placed, and the frontier of each
\* subformation holds its init_cell
InitPlace ==
    /\ Start(FALSE) /\ wild_crash = FALSE
    /\ \E b0, b1 \in {{}} \cup {{t} : t \in 0..(OCCUPIED_FIELD_RES - 1)} :
       \E split \in {2, OCCUPIED_FIELD_RES} :
       \E l2 \in {0, 1} : \E r1 \in Radii : \E d1, d2 \in {0, OCCUPIED_FIELD_RES - 1} :
        plan = [kind |-> "place", sub |-> 1,
                occupied |-> [l \in {0, 1} |-> [t \in 0..(OCCUPIED_FIELD_RES - 1) |->
                    IF t \in (IF l = 0 THEN b0 ELSE b1) THEN "BLOCKED" ELSE "FREE"]],
                islands |-> [l \in {0, 1} |-> [t \in 0..(OCCUPIED_FIELD_RES - 1) |->
                    IF t < split THEN 0 ELSE 1]],
                subs |-> [s \in {1, 2} |->
                    [layer |-> IF s = 1 THEN 0 ELSE l2,
                     unit_radius |-> IF s = 1 THEN r1 ELSE 0,
                     dest |-> IF s = 1 THEN d1 ELSE d2,
                     cells |-> [c \in {0, 1} |-> [state |-> "NOT_PLACED", tile |-> -1]],
                     frontier |-> <<1>>, placed |-> 0]]]

\* place_subformation, one turn of its loop: a cell is popped from the
\* frontier and, unless it was placed before, placed next to its neighbours
\* that are placed; its neighbours that are not are pushed.  A cell that
\* cannot be placed ends the loop
place_subformation ==
    /\ plan.kind = "place" /\ plan.sub \in DOMAIN plan.subs
    /\ plan.subs[plan.sub].frontier # <<>>
    /\ plan.subs[plan.sub].placed < 2
    /\ LET s == plan.sub
           f == plan.subs[s]
           curr == Head(f.frontier)
           left == curr - 1
           right == curr + 1
           push(q, c) == IF c \in {0, 1} /\ f.cells[c].state = "NOT_PLACED"
                         THEN Append(q, c) ELSE q
       IN IF f.cells[curr].state = "NOT_OCCUPIED"
          THEN plan' = [plan EXCEPT !.subs[s].frontier = Tail(f.frontier)]
          ELSE \E target_tile \in 0..(OCCUPIED_FIELD_RES - 1) : \E shift \in {-1, 0, 1} :
               \E r \in {place_cell(target_tile, f.dest, shift, f.unit_radius,
                                    f.layer, plan.occupied, plan.islands)} :
                IF ~r.success
                THEN plan' = [plan EXCEPT !.occupied = r.occupied,
                                          !.subs[s].frontier = <<>>]
                ELSE plan' = [plan EXCEPT
                        !.occupied = r.occupied,
                        !.subs[s].cells[curr] = [state |-> "NOT_OCCUPIED",
                                                 tile |-> r.tile],
                        !.subs[s].frontier = push(push(Tail(f.frontier), left), right),
                        !.subs[s].placed = f.placed + 1]
    /\ UNCHANGED moveVars

\* G_Formation_Create goes on to the next subformation when the loop of
\* place_subformation has ended
next_subformation ==
    /\ plan.kind = "place" /\ plan.sub \in DOMAIN plan.subs
    /\ plan.subs[plan.sub].frontier = <<>> \/ plan.subs[plan.sub].placed >= 2
    /\ plan' = [plan EXCEPT !.sub = plan.sub + 1]
    /\ UNCHANGED moveVars

NextPlace ==
    \/ place_subformation
    \/ next_subformation

SpecPlace == InitPlace /\ [][NextPlace]_vars

(***************************************************************************)
(* formation.c: the assignment of the entities of a subformation to its    *)
(* cells.  Rows are entities and columns are cells, both counted from 1;   *)
(* 'steps' counts the parts of the computation that have run, and 'error'  *)
(* names the assertion that failed.                                        *)
(***************************************************************************)
\* min_lines_to_cover_zeroes from the label 'iterate' on: a zero is starred
\* in every row that takes one, and the columns of the stars are covered
star_zeroes(p) ==
    LET RECURSIVE rows(_, _)
        rows(st, row) ==
            IF row > p.n THEN st
            ELSE IF \E c \in 1..p.n :
                        \/ st[row][c]
                        \/ p.costs[row][c] = 0 /\ \A r \in 1..p.n : ~st[r][c]
                 THEN rows([st EXCEPT ![row][
                        CHOOSE c \in 1..p.n :
                            /\ \/ st[row][c]
                               \/ p.costs[row][c] = 0 /\ \A r \in 1..p.n : ~st[r][c]
                            /\ \A d \in 1..(c - 1) :
                                ~(\/ st[row][d]
                                  \/ p.costs[row][d] = 0
                                        /\ \A r \in 1..p.n : ~st[r][d])] = TRUE],
                           row + 1)
                 ELSE rows(st, row + 1)
        cover(st) ==
            [r \in 1..p.n |-> [c \in 1..p.n |->
                p.covered[r][c] \/ \E r2 \in 1..p.n : st[r2][c]]]
    IN [p EXCEPT !.starred = rows(p.starred, 1),
                 !.covered = cover(rows(p.starred, 1)),
                 !.pc = "prime", !.steps = p.steps + 1]

\* an end that leaves the matrix as it is when the lines are too few
count_lines_same_matrix(p) ==
    IF \E r \in 1..p.n : \A c \in 1..p.n : ~p.starred[r][c]
    THEN [p EXCEPT !.starred = [r \in 1..p.n |-> [c \in 1..p.n |-> FALSE]],
                   !.covered = [r \in 1..p.n |-> [c \in 1..p.n |-> FALSE]],
                   !.primed = [r \in 1..p.n |-> [c \in 1..p.n |-> FALSE]],
                   !.pc = "iterate", !.steps = p.steps + 1]
    ELSE [p EXCEPT !.assignment = [i \in 1..p.n |->
                        CHOOSE c \in 1..p.n : p.starred[i][c]],
                   !.pc = "done", !.steps = p.steps + 1]

\* the end of min_lines_to_cover_zeroes, when every zero is covered: with
\* fewer than n lines compute_cell_assignment goes on with the matrix
\* 'next' and calls it again; else the stars are the assignment, and the
\* i-th entity gets the column of the i-th star
count_lines(p) ==
    LET n == p.n
        row_is_covered(r) == \A c \in 1..n : p.covered[r][c]
        column_is_covered(c) == \A r \in 1..n : p.covered[r][c]
        nrows == Cardinality({r \in 1..n : row_is_covered(r)})
        ncols == Cardinality({c \in 1..n : column_is_covered(c)})
        ret == IF nrows = n \/ ncols = n THEN n ELSE nrows + ncols
        open == {p.costs[rc[1]][rc[2]] :
                    rc \in {x \in (1..n) \X (1..n) : ~p.covered[x[1]][x[2]]}}
        min == CHOOSE m \in open : \A o \in open : m <= o
        none == [r \in 1..n |-> [c \in 1..n |-> FALSE]]
        stars == SelectSeq([i \in 1..(n * n) |->
                              <<((i - 1) \div n) + 1, ((i - 1) % n) + 1>>],
                           LAMBDA rc : p.starred[rc[1]][rc[2]])
    IN IF ret < n
       THEN [p EXCEPT !.costs = [r \in 1..n |-> [c \in 1..n |->
                            p.costs[r][c]
                            - (IF row_is_covered(r) THEN 0 ELSE min)
                            + (IF column_is_covered(c) THEN min ELSE 0)]],
                      !.starred = none, !.covered = none, !.primed = none,
                      !.pc = "iterate", !.steps = p.steps + 1]
       ELSE [p EXCEPT !.assignment = [i \in 1..Len(stars) |-> stars[i][2]],
                      !.error = IF Len(stars) = n THEN p.error
                                ELSE "assignment_count",
                      !.pc = "done", !.steps = p.steps + 1]

\* one turn of the loop of min_lines_to_cover_zeroes that primes a zero
\* that is not covered: the row of the zero is covered in place of the
\* column of its star, or the stars are changed along the path from the
\* zero and the computation goes back to 'iterate'
prime_zero(p) ==
    LET n == p.n
        open(r, c) == p.costs[r][c] = 0 /\ ~p.covered[r][c]
        pr == CHOOSE r \in 1..n :
                /\ \E c \in 1..n : open(r, c)
                /\ \A r2 \in 1..(r - 1) : \A c \in 1..n : ~open(r2, c)
        pc == CHOOSE c \in 1..n :
                open(pr, c) /\ \A c2 \in 1..(c - 1) : ~open(pr, c2)
        primed == [p.primed EXCEPT ![pr][pc] = TRUE]
        First(S) == CHOOSE x \in S : \A y \in S : x <= y
        row_is_covered(r) == \A c \in 1..n : p.covered[r][c]
        swap_lines(starred_c) ==
            [r \in 1..n |-> [c \in 1..n |->
                IF r = pr THEN TRUE
                ELSE IF c = starred_c /\ ~row_is_covered(r) THEN FALSE
                ELSE p.covered[r][c]]]
        RECURSIVE walk(_, _)
        walk(path, c) ==
            IF \A r \in 1..n : ~p.starred[r][c] THEN path
            ELSE IF \A c2 \in 1..n :
                        ~primed[First({r \in 1..n : p.starred[r][c]})][c2]
                 THEN Append(path, <<0, 0>>)
            ELSE IF Len(path) + 2 > n * n THEN Append(path, <<-1, -1>>)
            ELSE walk(path \o
                        <<<<First({r \in 1..n : p.starred[r][c]}), c>>,
                          <<First({r \in 1..n : p.starred[r][c]}),
                            First({c2 \in 1..n :
                                primed[First({r \in 1..n : p.starred[r][c]})][c2]})>>>>,
                      First({c2 \in 1..n :
                            primed[First({r \in 1..n : p.starred[r][c]})][c2]}))
        RECURSIVE flip(_, _)
        flip(st, path) ==
            IF path = <<>> THEN st
            ELSE flip([st EXCEPT ![Head(path)[1]][Head(path)[2]] = ~@], Tail(path))
        RECURSIVE exclusive(_, _)
        exclusive(st, path) ==
            \/ path = <<>>
            \/ /\ st[Head(path)[1]][Head(path)[2]] # primed[Head(path)[1]][Head(path)[2]]
               /\ exclusive([st EXCEPT ![Head(path)[1]][Head(path)[2]] = ~@], Tail(path))
        none == [r \in 1..n |-> [c \in 1..n |-> FALSE]]
        augment(path) ==
            IF path[Len(path)] = <<0, 0>>
            THEN [p EXCEPT !.error = "primed_zero_at_row", !.pc = "done",
                           !.steps = p.steps + 1]
            ELSE IF path[Len(path)] = <<-1, -1>>
            THEN [p EXCEPT !.error = "path_overflow", !.pc = "done",
                           !.steps = p.steps + 1]
            ELSE IF ~exclusive(p.starred, path)
            THEN [p EXCEPT !.error = "starred_xor_primed", !.pc = "done",
                           !.steps = p.steps + 1]
            ELSE [p EXCEPT !.starred = flip(p.starred, path),
                           !.primed = none, !.covered = none,
                           !.pc = "iterate", !.steps = p.steps + 1]
    IN IF \A r, c \in 1..n : ~open(r, c) THEN count_lines(p)
       ELSE IF \E c \in 1..n : p.starred[pr][c]
       THEN [p EXCEPT !.primed = primed,
                      !.covered = swap_lines(First({c \in 1..n : p.starred[pr][c]})),
                      !.steps = p.steps + 1]
       ELSE augment(walk(<<<<pr, pc>>>>, pc))

\* mark_unused_cells: with more placed cells than entities, the cells
\* that are not placed and as many cells of the back row as are in excess,
\* from its left and its right end in turn, are not used
mark_unused_cells(p) ==
    LET ncells == Len(p.cells)
        nplaced == Cardinality({j \in 1..ncells : p.cells[j] # "NOT_PLACED"})
        nexcess == nplaced - p.n
    IN IF p.n = ncells \/ nplaced <= p.n THEN p
       ELSE [p EXCEPT !.cells = [j \in 1..ncells |->
                IF \/ p.cells[j] = "NOT_PLACED"
                   \/ j <= (nexcess + 1) \div 2
                   \/ j <= p.ncols /\ j > p.ncols - (nexcess \div 2)
                THEN "NOT_USED" ELSE p.cells[j]]]

\* create_cost_matrix: the columns of the matrix are the first cells that
\* are used, as many as there are entities, and these must be all cells up
\* to the last one; the cost of a cell that is not placed is INT_MAX, and
\* of any other cell the square of its distance from the entity
create_cost_matrix(p) ==
    LET used == SelectSeq([j \in 1..Len(p.cells) |-> j],
                          LAMBDA j : p.cells[j] # "NOT_USED")
        costs == [i \in 1..p.n |-> [j \in 1..p.n |->
                    IF p.cells[used[j]] = "NOT_PLACED" THEN INT_MAX
                    ELSE p.dist[i][used[j]]]]
    IN IF Len(used) < p.n \/ used[p.n] # Len(p.cells)
       THEN [p EXCEPT !.error = "cost_matrix_cells", !.pc = "done"]
       ELSE [p EXCEPT !.idx_to_cell = SubSeq(used, 1, p.n),
                      !.orig = costs, !.costs = costs]

\* place_subformation has placed the cells up to the first one that found
\* no place, in the order of its traversal from the middle of the front
\* row: of three entities in a rank of one row, with any costs up to
\* MaxCost, or of five entities in a column of three rows of two cells,
\* each at one end of the line that the cells are on, or of six entities in
\* a rank of two rows of five cells, at no cost
InitAssign ==
    /\ Start(FALSE) /\ wild_crash = FALSE
    /\ \E shape \in {[n |-> 3, ncols |-> 3, order |-> <<2, 1, 3>>],
                     [n |-> 5, ncols |-> 2, order |-> <<6, 5, 4, 3, 2, 1>>],
                     [n |-> 6, ncols |-> 5,
                      order |-> <<8, 7, 9, 3, 6, 2, 10, 4, 1, 5>>]} :
       \E k \in 0..Len(shape.order) :
       \E m \in [(1..3) \X (1..3) -> 0..MaxCost] :
       \E x \in [1..5 -> {1, 6}] :
        /\ shape.n # 5 => \A i \in 1..5 : x[i] = 1
        /\ shape.n # 3 => \A rc \in (1..3) \X (1..3) : m[rc] = 0
        /\ plan = [kind |-> "assign", n |-> shape.n, ncols |-> shape.ncols,
                   cells |-> [j \in 1..Len(shape.order) |->
                        IF \E i \in 1..k : shape.order[i] = j
                        THEN "NOT_OCCUPIED" ELSE "NOT_PLACED"],
                   dist |-> [i \in 1..shape.n |-> [j \in 1..Len(shape.order) |->
                        IF \A q \in 1..k : shape.order[q] # j THEN 0
                        ELSE IF shape.n = 3 THEN m[<<i, j>>]
                        ELSE IF shape.n = 5 THEN (x[i] - j) * (x[i] - j)
                        ELSE 0]],
                   pc |-> "start", steps |-> 0, error |-> "",
                   assignment |-> <<>>, idx_to_cell |-> <<>>,
                   orig |-> <<>>, costs |-> <<>>,
                   starred |-> [r \in 1..shape.n |-> [c \in 1..shape.n |-> FALSE]],
                   covered |-> [r \in 1..shape.n |-> [c \in 1..shape.n |-> FALSE]],
                   primed |-> [r \in 1..shape.n |-> [c \in 1..shape.n |-> FALSE]]]

\* mark_unused_cells and compute_cell_assignment up to its first call of
\* min_lines_to_cover_zeroes: the cost matrix is made, the minimum of every
\* row is subtracted from the row, and then the minimum of every column
\* from the column
compute_cell_assignment ==
    /\ plan.kind = "assign" /\ plan.pc = "start"
    /\ LET Min(S) == CHOOSE x \in S : \A y \in S : x <= y
           by_row(c) == [r \in 1..plan.n |-> [j \in 1..plan.n |->
                            c[r][j] - Min({c[r][i] : i \in 1..plan.n})]]
           by_column(c) == [r \in 1..plan.n |-> [j \in 1..plan.n |->
                            c[r][j] - Min({c[i][j] : i \in 1..plan.n})]]
           reduce(p) == IF p.error # "" THEN p
                        ELSE [p EXCEPT !.costs = by_column(by_row(p.costs)),
                                       !.pc = "iterate", !.steps = 1]
       IN plan' = reduce(create_cost_matrix(mark_unused_cells(plan)))
    /\ UNCHANGED moveVars

\* min_lines_to_cover_zeroes, a part of it: the stars of 'iterate', or a
\* turn of the loop that primes a zero, with the end of the function when
\* there is no zero to prime
min_lines_to_cover_zeroes ==
    /\ plan.kind = "assign" /\ plan.pc \in {"iterate", "prime"}
    /\ plan.steps < MaxSteps
    /\ plan' = IF plan.pc = "iterate" THEN star_zeroes(plan) ELSE prime_zero(plan)
    /\ UNCHANGED moveVars

NextAssign ==
    \/ compute_cell_assignment
    \/ min_lines_to_cover_zeroes

SpecAssign == InitAssign /\ [][NextAssign]_vars

(***************************************************************************)
(* field.c: the integration field and the flow field of a chunk for a      *)
(* target tile.  A tile is a pair of a row and a column, counted from 0.   *)
(***************************************************************************)
FieldTiles == (0..(FIELD_RES_R - 1)) \X (0..(FIELD_RES_R - 1))

\* the tile that a flow direction leads to
flow_dir(d) ==
    CASE d = "FD_N" -> <<-1, 0>> [] d = "FD_S" -> <<1, 0>>
      [] d = "FD_E" -> <<0, 1>> [] d = "FD_W" -> <<0, -1>>
      [] d = "FD_NW" -> <<-1, -1>> [] d = "FD_NE" -> <<-1, 1>>
      [] d = "FD_SW" -> <<1, -1>> [] d = "FD_SE" -> <<1, 1>>
      [] OTHER -> <<0, 0>>

\* the direction of the first neighbour with a finite cost
field_flow_dir_any_finite(intf, coord) ==
    LET at(d) == <<coord[1] + flow_dir(d)[1], coord[2] + flow_dir(d)[2]>>
        ok(d) == at(d) \in FieldTiles /\ intf[at(d)] < INFINITY
    IN IF ok("FD_N") THEN "FD_N" ELSE IF ok("FD_S") THEN "FD_S"
       ELSE IF ok("FD_E") THEN "FD_E" ELSE IF ok("FD_W") THEN "FD_W"
       ELSE "assert"

\* field_flow_dir: the direction of the neighbour with the least cost,
\* where a diagonal neighbour counts only if the two tiles beside it have
\* a finite cost; the four sides come before the diagonals
field_flow_dir(intf, coord) ==
    LET at(d) == <<coord[1] + flow_dir(d)[1], coord[2] + flow_dir(d)[2]>>
        in_field(d) == at(d) \in FieldTiles
        side(d) == in_field(d) /\ intf[at(d)] < INFINITY
        counted == {d \in {"FD_N", "FD_S", "FD_W", "FD_E"} : in_field(d)}
            \cup (IF side("FD_N") /\ side("FD_W") THEN {"FD_NW"} ELSE {})
            \cup (IF side("FD_N") /\ side("FD_E") THEN {"FD_NE"} ELSE {})
            \cup (IF side("FD_S") /\ side("FD_W") THEN {"FD_SW"} ELSE {})
            \cup (IF side("FD_S") /\ side("FD_E") THEN {"FD_SE"} ELSE {})
        costs == {intf[at(d)] : d \in counted}
        min_cost == IF costs = {} THEN INFINITY
                    ELSE CHOOSE x \in costs : \A y \in costs : x <= y
        is_min(d) == in_field(d) /\ intf[at(d)] = min_cost
    IN IF ~(min_cost < INFINITY) THEN "assert"
       ELSE IF is_min("FD_N") THEN "FD_N" ELSE IF is_min("FD_S") THEN "FD_S"
       ELSE IF is_min("FD_E") THEN "FD_E" ELSE IF is_min("FD_W") THEN "FD_W"
       ELSE IF is_min("FD_NW") THEN "FD_NW" ELSE IF is_min("FD_NE") THEN "FD_NE"
       ELSE IF is_min("FD_SW") THEN "FD_SW" ELSE IF is_min("FD_SE") THEN "FD_SE"
       ELSE "assert"

\* N_FlowFieldUpdate up to field_build_integration: every tile has the
\* cost INFINITY but the target tile, which is the frontier with the cost
\* 0 if it is passable or the field is built without regard to that
InitField ==
    /\ Start(FALSE) /\ wild_crash = FALSE
    /\ \E cost_base \in [FieldTiles -> (1..MaxBaseCost) \cup {COST_IMPASSABLE}] :
       \E target \in FieldTiles : \E ignoreblock \in BOOLEAN :
        /\ Cardinality({t \in FieldTiles : cost_base[t] = COST_IMPASSABLE}) <= MaxWalls
        /\ Cardinality({t \in FieldTiles : cost_base[t] \in 2..MaxBaseCost}) <= MaxRough
        /\ ignoreblock => cost_base[target] = COST_IMPASSABLE
        /\ LET seeded == ignoreblock \/ cost_base[target] # COST_IMPASSABLE
           IN plan = [kind |-> "field", cost_base |-> cost_base, target |-> target,
                      intf |-> [t \in FieldTiles |->
                                 IF seeded /\ t = target THEN 0 ELSE INFINITY],
                      frontier |-> IF seeded THEN {[prio |-> 0, at |-> target]} ELSE {},
                      flow |-> [t \in FieldTiles |-> "FD_NONE"],
                      pc |-> "integrate", error |-> ""]

\* field_build_integration, one turn of its loop: a tile of the least
\* priority leaves the frontier, and each of its passable neighbours on its
\* four sides that it gives a smaller cost gets that cost and, unless it is
\* in the frontier, enters the frontier
field_build_integration ==
    /\ plan.kind = "field" /\ plan.pc = "integrate"
    /\ \E e \in plan.frontier :
        /\ \A f \in plan.frontier : e.prio <= f.prio
        /\ LET curr == e.at
               rest == plan.frontier \ {e}
               field_neighbours_grid ==
                   {n \in FieldTiles :
                       /\ \E d \in {"FD_N", "FD_S", "FD_E", "FD_W"} :
                            n = <<curr[1] + flow_dir(d)[1], curr[2] + flow_dir(d)[2]>>
                       /\ plan.cost_base[n] # COST_IMPASSABLE}
               total_cost(n) == plan.intf[curr] + plan.cost_base[n]
               lower == {n \in field_neighbours_grid : total_cost(n) < plan.intf[n]}
           IN plan' = [plan EXCEPT
                  !.intf = [t \in FieldTiles |->
                              IF t \in lower THEN total_cost(t) ELSE plan.intf[t]],
                  !.frontier = rest \cup
                      {[prio |-> total_cost(n), at |-> n] :
                          n \in {x \in lower : \A f \in rest : f.at # x}}]
    /\ UNCHANGED moveVars

\* field_build_flow, when the frontier is empty: a tile with a finite cost
\* other than 0 gets the direction of field_flow_dir, a tile with the cost
\* 0 gets none, and a tile with the cost INFINITY is not touched
field_build_flow ==
    /\ plan.kind = "field" /\ plan.pc = "integrate" /\ plan.frontier = {}
    /\ LET dir(t) == IF plan.intf[t] = INFINITY THEN plan.flow[t]
                     ELSE IF plan.intf[t] = 0 THEN "FD_NONE"
                     ELSE field_flow_dir(plan.intf, t)
       IN plan' = [plan EXCEPT
              !.flow = [t \in FieldTiles |-> IF dir(t) = "assert" THEN "FD_NONE" ELSE dir(t)],
              !.error = IF \E t \in FieldTiles : dir(t) = "assert"
                        THEN "min_cost" ELSE "",
              !.pc = "done"]
    /\ UNCHANGED moveVars

NextField ==
    \/ field_build_integration
    \/ field_build_flow

SpecField == InitField /\ [][NextField]_vars

(***************************************************************************)
(* formation.c: the cell arrival field work of one subformation.  Every    *)
(* entity of the subformation has a slot of sub->futures; the tasks of the *)
(* slots run on the threads of the scheduler, beside the handlers of the   *)
(* main thread.                                                            *)
(***************************************************************************)
\* the tasks of one slot that have not ended, at most
MaxRunning == 2

\* the entities of sub->ents, in the order of kh_foreach_key
SubEnts == <<1, 2>>

Slots == 1..Len(SubEnts)

\* dispatch_cell_task: the slot is reset and named after uid, and a task is
\* created for it; when the scheduler has no room (NULL_TID) the field is
\* computed in the call and the future is complete at once
dispatch_cell_work(slot, uid, full) ==
    [slot EXCEPT !.consumed = FALSE, !.recompute_pending = FALSE,
                 !.uid = uid,
                 !.status = IF full THEN "FUTURE_COMPLETE" ELSE "FUTURE_INCOMPLETE",
                 !.running = IF full THEN @ ELSE @ + 1]

\* the tasks of the slots in S end: the scheduler completes their future
task_exits(futures, S) ==
    [j \in Slots |->
        IF j \in S /\ futures[j].running > 0
        THEN [futures[j] EXCEPT !.running = @ - 1, !.status = "FUTURE_COMPLETE"]
        ELSE futures[j]]

\* dispatch_cell_field_work, at the creation of the formation
InitCell ==
    /\ Start(FALSE) /\ wild_crash = FALSE
    /\ \E full \in BOOLEAN :
        plan = [kind |-> "cells",
                futures |-> [j \in Slots |->
                    dispatch_cell_work([consumed |-> FALSE,
                                        recompute_pending |-> FALSE, uid |-> 0,
                                        status |-> "FUTURE_COMPLETE",
                                        running |-> 0], SubEnts[j], full)],
                results |-> {}]

\* a task of cell_field_task ends on its thread
cell_field_task_exit ==
    /\ plan.kind = "cells"
    /\ \E j \in Slots :
        /\ plan.futures[j].running > 0
        /\ plan' = [plan EXCEPT !.futures = task_exits(plan.futures, {j})]
    /\ UNCHANGED moveVars

\* on_update_start: a slot with a pending recompute is dispatched, and the
\* result of a slot that is ready and not consumed is published
on_update_start ==
    /\ plan.kind = "cells"
    /\ \E full \in BOOLEAN :
        LET again(w, j) == IF w.recompute_pending
                           THEN dispatch_cell_work(w, w.uid, full) ELSE w
            ready(w) == ~w.consumed /\ w.status = "FUTURE_COMPLETE"
            fs == [j \in Slots |-> again(plan.futures[j], j)]
        IN /\ \A j \in Slots : fs[j].running <= MaxRunning
           /\ plan' = [plan EXCEPT
                  !.futures = [j \in Slots |->
                      IF ready(fs[j]) THEN [fs[j] EXCEPT !.consumed = TRUE]
                      ELSE fs[j]],
                  !.results = @ \cup {fs[j].uid : j \in {s \in Slots : ready(fs[s])}}]
    /\ UNCHANGED moveVars

\* recompute_cell_arrival_fields, from its turn for the k-th entity on: i
\* is the slot that the turn looks at, which a slot that is still being
\* computed does not advance; the tasks of the slots in between end after
\* the first turn
RECURSIVE recompute_cell_arrival_fields(_, _, _, _, _)
recompute_cell_arrival_fields(futures, k, i, between, full) ==
    IF k > Len(SubEnts) THEN futures
    ELSE LET fs == IF k = 2 THEN task_exits(futures, between) ELSE futures
             curr == fs[i]
         IN IF ~curr.consumed /\ curr.status = "FUTURE_INCOMPLETE"
            THEN recompute_cell_arrival_fields(
                     [fs EXCEPT ![i].recompute_pending = TRUE],
                     k + 1, i, between, full)
            ELSE recompute_cell_arrival_fields(
                     [fs EXCEPT ![i] = dispatch_cell_work(curr, SubEnts[k], full)],
                     k + 1, i + 1, between, full)

\* on_1hz_tick, for a formation that an event makes recompute its fields
on_1hz_tick ==
    /\ plan.kind = "cells"
    /\ \E full \in BOOLEAN : \E between \in SUBSET Slots :
        LET fs == recompute_cell_arrival_fields(plan.futures, 1, 1, between, full)
        IN /\ \A j \in Slots : fs[j].running <= MaxRunning
           /\ plan' = [plan EXCEPT !.futures = fs]
    /\ UNCHANGED moveVars

NextCell ==
    \/ cell_field_task_exit
    \/ on_update_start
    \/ on_1hz_tick

SpecCell == InitCell /\ [][NextCell]_vars

(***************************************************************************)
(* The velocity work of a tick on the GPU: the tick task pushes commands   *)
(* to the render thread, which executes them in their order and owns       *)
(* s_move_fence; the task waits for EVENT_UPDATE_START between its parts.  *)
(* The build checks its assertions.                                        *)
(***************************************************************************)
\* the commands in the queue of the render thread, at most
MaxRender == 3

R_PushCmd(p, func) == [p EXCEPT !.rq = Append(@, func)]

\* move_complete_gpu_velocity_work and the start of await_gpu_download
move_complete_gpu_velocity_work(p) ==
    [R_PushCmd(p, "R_GL_MoveReadNewVelocities") EXCEPT
        !.pc = "await_gpu_download", !.frames = 0]

\* await_gpu_completion, one turn of its loop: without the velocities the
\* task has the fence polled and waits for the next EVENT_UPDATE_START
await_gpu_completion(p) ==
    IF p.ready THEN move_complete_gpu_velocity_work(p)
    ELSE [R_PushCmd(p, "R_GL_MovePollCompletion") EXCEPT
            !.pc = "await_gpu_completion"]

\* navigation_tick_task of a tick on the GPU, from where it stands to its
\* next wait or to its end; timeout says that the period of the tick has
\* passed when the task is resumed in await_gpu_completion
gpu_tick_task(p, timeout) ==
    IF p.pc = "created"
    THEN await_gpu_completion(R_PushCmd(p, "R_GL_MoveDispatchWork"))
    ELSE IF p.pc = "await_gpu_completion"
    THEN IF timeout THEN move_complete_gpu_velocity_work(p)
         ELSE await_gpu_completion(p)
    ELSE IF p.pc = "await_gpu_download"
    THEN IF p.frames + 1 < 2 THEN [p EXCEPT !.frames = @ + 1]
         ELSE [p EXCEPT !.pc = "done", !.frames = 0]
    ELSE p

InitFence ==
    /\ Start(TRUE) /\ wild_crash = FALSE
    /\ plan = [kind |-> "gpu", pc |-> "none", rq |-> <<>>, fence |-> 0,
               ready |-> FALSE, frames |-> 0, error |-> ""]

GpuStep(q) ==
    /\ Len(q.rq) <= MaxRender
    /\ plan' = q
    /\ UNCHANGED moveVars

\* move_tick or handle_queued_tick when the work of the last tick is
\* complete: move_do_tick clears gpu_velocities_ready and
\* nav_tick_submit_work creates the tick task
move_do_tick_gpu ==
    /\ plan.kind = "gpu" /\ plan.error = ""
    /\ plan.pc \in {"none", "done"}
    /\ GpuStep([plan EXCEPT !.pc = "created", !.ready = FALSE])

\* the scheduler runs the tick task that was created
Sched_Run ==
    /\ plan.kind = "gpu" /\ plan.error = ""
    /\ plan.pc = "created"
    /\ GpuStep(gpu_tick_task(plan, FALSE))

\* EVENT_UPDATE_START of a frame resumes the tick task that waits for it
Task_AwaitEvent ==
    /\ plan.kind = "gpu" /\ plan.error = ""
    /\ plan.pc \in {"await_gpu_completion", "await_gpu_download"}
    /\ \E timeout \in BOOLEAN : GpuStep(gpu_tick_task(plan, timeout))

\* G_Move_FlushWork: nav_tick_finish_work runs the task until it waits for
\* an event or ends, and nav_cancel_gpu_work cancels a task that waits
G_Move_FlushWork_gpu ==
    /\ plan.kind = "gpu" /\ plan.error = ""
    /\ plan.pc # "none"
    /\ GpuStep([(IF plan.pc = "created" THEN gpu_tick_task(plan, FALSE) ELSE plan)
                    EXCEPT !.pc = "none", !.frames = 0])

\* the render thread executes the oldest command of its queue
R_GL_MoveDispatchWork(p) ==
    IF p.fence # 0 THEN [p EXCEPT !.error = "dispatch_fence"]
    ELSE [p EXCEPT !.fence = 1]

R_GL_MovePollCompletion(p, signaled) ==
    IF p.fence = 0 \/ ~signaled THEN p ELSE [p EXCEPT !.ready = TRUE]

R_GL_MoveReadNewVelocities(p) ==
    IF p.fence = 0 THEN [p EXCEPT !.error = "read_fence"]
    ELSE [p EXCEPT !.fence = 0]

render_thread ==
    /\ plan.kind = "gpu" /\ plan.error = ""
    /\ plan.rq # <<>>
    /\ LET func == Head(plan.rq)
           p == [plan EXCEPT !.rq = Tail(@)]
       IN \E signaled \in BOOLEAN :
            GpuStep(IF func = "R_GL_MoveDispatchWork" THEN R_GL_MoveDispatchWork(p)
                    ELSE IF func = "R_GL_MovePollCompletion"
                    THEN R_GL_MovePollCompletion(p, signaled)
                    ELSE R_GL_MoveReadNewVelocities(p))

NextFence ==
    \/ move_do_tick_gpu
    \/ Sched_Run
    \/ Task_AwaitEvent
    \/ G_Move_FlushWork_gpu
    \/ render_thread

SpecFence == InitFence /\ [][NextFence]_vars

(***************************************************************************)
(* Claims                                                                  *)
(***************************************************************************)
\* the handler that ran last is a tick that ran to its end
AfterTick == abort = "" /\ tick_log = TickSteps

\* the handler that ran last popped commands: a tick or a flush
AfterDrain == pre # NoPre

HasMs(u) == ms[u] # NoMs

\* the index of the last command of the queue that names the uid, or 0
LastNaming(q, u) ==
    LET hits == {i \in 1..Len(q) : q[i].type # "MAKE_FLOCKS" /\ q[i].uid = u}
    IN IF hits = {} THEN 0 ELSE CHOOSE i \in hits : \A j \in hits : j <= i

\* the index of the last command of the queue of the type for the uid, or 0
LastOfType(q, type, u) ==
    LET hits == {i \in 1..Len(q) : q[i].type = type /\ q[i].uid = u}
    IN IF hits = {} THEN 0 ELSE CHOOSE i \in hits : \A j \in hits : j <= i

\* the commands q[1] .. q[n] applied one at a time in the order of arrival
RECURSIVE ApplyInOrder(_, _, _)
ApplyInOrder(st, q, n) ==
    IF n = 0 THEN st ELSE do_cmd(ApplyInOrder(st, q, n - 1), q[n])

\* what the handler that ran last does after it has popped the commands
AfterCmds(st) ==
    IF tick_log # <<>> /\ tick_log[1] = "apply_patches"
    THEN disband_empty_flocks(st) ELSE st

\* the tiles' blocker counts that the blocking agents other than u account for
BlockersWithout(u) ==
    [t \in Tiles |-> Cardinality({o \in UIDs \ {u} :
        /\ HasMs(o) /\ ms[o].blocking
        /\ t \in Disk(ms[o].last_stop_pos, ms[o].last_stop_radius)})]

\* C1: after every tick an agent in Arrived or Waiting has zero velocity
\* (one direction of: Arrived or Waiting <=> zero velocity <=> blocking)
C1_StillMeansZeroVelocity ==
    AfterTick =>
        \A u \in UIDs : HasMs(u) /\ ent_still(ms[u]) => ms[u].velocity = 0

\* C2: an agent that is Waiting before and after a tick has one tick less
\* to wait after it
C2_WaitCountsDown ==
    [][\A u \in UIDs :
        (/\ tick_log' = TickSteps
         /\ abort' = ""
         /\ HasMs(u) /\ ms[u].state = STATE_WAITING
         /\ ms'[u] # NoMs /\ ms'[u].state = STATE_WAITING)
        => ms'[u].wait_ticks_left = ms[u].wait_ticks_left - 1]_vars

\* C3: a tick that drains Stop(u), once or twice and nothing else, for an
\* agent u fails no assertion and leaves u Arrived, and one more Stop(u)
\* changes nothing: neither as the second command of the drain nor applied
\* to the state reached
C3_StopArrivesAndRepeats ==
    \A u \in UIDs :
        (/\ AfterDrain /\ Ok(pre) /\ pre.ms[u] # NoMs
         /\ tick_log # <<>> /\ tick_log[1] = "apply_patches"
         /\ drained \in {<<G_Move_Stop(u)>>, <<G_Move_Stop(u), G_Move_Stop(u)>>})
        => /\ abort = ""
           /\ ms[u].state = STATE_ARRIVED
           /\ Ok(do_stop(Core, u))
           /\ Tables(do_stop(Core, u)) = Tables(Core)
           /\ Tables(Core) = Tables(AfterCmds(do_stop(pre, u)))

\* u is Moving in the flock of destination d when the drain begins
MovingTo(st, u, d, attack) ==
    /\ st.ms[u] # NoMs /\ st.ms[u].state = STATE_MOVING
    /\ flock_for_ent(st, u) # 0
    /\ st.flocks[flock_for_ent(st, u)].dest_id =
            M_NavDestIDForPos(M_NavClosestReachableDest(d), attack)

\* C4: a drain of the one command SetDest(u, d) for an agent that is Moving
\* toward d fails no assertion and leaves the Movestate of u (state and
\* velocity and blocking among its fields), the flocks and the blocker
\* counts as they were
C4_SetDestSameIsNoOp ==
    \A u \in UIDs, d \in DestPts, a \in BOOLEAN :
        (/\ AfterDrain /\ Ok(pre)
         /\ drained = <<G_Move_SetDest(u, d, a)>>
         /\ MovingTo(pre, u, d, a))
        => /\ abort = ""
           /\ ms[u] = pre.ms[u]
           /\ flocks = pre.flocks
           /\ blockers = pre.blockers

\* a tick has drained SetDest(1, 1) for an agent that was moving to 1 with a
\* velocity that is not zero
C4_Witness ==
    /\ AfterTick /\ Ok(pre)
    /\ drained = <<G_Move_SetDest(1, 1, FALSE)>>
    /\ MovingTo(pre, 1, 1, FALSE)
    /\ pre.ms[1].velocity = 1

\* the command names a uid without Movestate, or adds a uid that has one
Misnamed(st, cmd) ==
    /\ cmd.type # "MAKE_FLOCKS"
    /\ IF cmd.type = "ADD" THEN st.ms[cmd.uid] # NoMs ELSE st.ms[cmd.uid] = NoMs

\* C5: a drain of one command that names a uid without Movestate, or that
\* adds a uid that has one, fails no assertion and changes no Movestate, no
\* flock and no blocker count
C5_MisnamedIsDropped ==
    (/\ AfterDrain /\ Ok(pre)
     /\ Len(drained) = 1 /\ Misnamed(pre, drained[1]))
    => /\ abort = ""
       /\ ms = pre.ms
       /\ flocks = AfterCmds(pre).flocks
       /\ blockers = pre.blockers

\* C6: a drain of the one command Add(u, pos, radius) for a uid without
\* Movestate gives u a Movestate that is Arrived, has zero velocity and is
\* blocking, and adds one to the count of exactly the tiles under its disk
C6_AddBlocksOnce ==
    \A u \in UIDs, p \in Tiles, r \in Radii :
        (/\ AfterDrain /\ Ok(pre)
         /\ drained = <<G_Move_AddEntity(u, p, r)>>
         /\ pre.ms[u] = NoMs)
        => /\ abort = ""
           /\ HasMs(u)
           /\ ms[u].state = STATE_ARRIVED
           /\ ms[u].velocity = 0
           /\ ms[u].blocking
           /\ blockers = [t \in Tiles |->
                pre.blockers[t] + (IF t \in Disk(p, r) THEN 1 ELSE 0)]

\* a tick has drained Add(1, 1, 0): tile 1 counts the agent, tile 0 does not
C6_Witness ==
    /\ AfterTick /\ Ok(pre)
    /\ drained = <<G_Move_AddEntity(1, 1, 0)>>
    /\ pre.ms[1] = NoMs
    /\ blockers[1] = 1 /\ blockers[0] = 0

\* C7: a drain of the one command Remove(u) fails no assertion and leaves u
\* without Movestate, in no flock and counted by no tile
C7_RemoveLeavesNothing ==
    \A u \in UIDs :
        (AfterDrain /\ Ok(pre) /\ drained = <<G_Move_RemoveEntity(u)>>)
        => /\ abort = ""
           /\ ~HasMs(u)
           /\ flock_for_ent(Core, u) = 0
           /\ blockers = BlockersWithout(u)

\* C8: a tick or flush pops the whole queue, and leaves the tables that the
\* popped commands give when they are applied one at a time in the order of
\* their arrival; it fails the assertion that this order fails
C8_FifoDrain ==
    (AfterDrain /\ Ok(pre))
    => LET e == AfterCmds(ApplyInOrder(pre, drained, Len(drained))) IN
       /\ cmds = <<>>
       /\ Ok(e) => Tables(Core) = Tables(e)
       /\ ~Ok(e) => abort = e.abort

\* a tick has drained Add(1) and then SetMaxSpeed(1, 1): the agent has the
\* speed, which the opposite order would not give it
C8_Witness ==
    /\ AfterTick /\ Ok(pre)
    /\ drained = <<G_Move_AddEntity(1, 0, 0), G_Move_SetMaxSpeed(1, 1)>>
    /\ pre.ms[1] = NoMs
    /\ ms[1].max_speed = 1

\* the state that a drain of the pending commands leaves
Drained == move_process_cmds(Core, cmds)

C10_TickOrder ==
    (tick_log # <<>> /\ tick_log[1] \notin {"cancel_task", "discard_work", "shutdown"})
    => /\ Len(tick_log) <= Len(TickSteps)
       /\ tick_log = SubSeq(TickSteps, 1, Len(tick_log))
       /\ abort = "" => tick_log = TickSteps

\* a tick has applied a patch that the GPU path computed, popped a command
\* and dispatched new work
C10_Witness ==
    /\ AfterTick
    /\ applied > 0
    /\ drained # <<>>
    /\ Len(work) > 0
    /\ use_gpu

\* the work of the last tick is still running: the tick task waits for the
\* GPU, or will wait for it as soon as it is run
WorkRunning == task = "blocked" \/ (task = "ready" /\ work_type = "GPU")

\* the handler left the tick where it was and recorded a queued tick
TickHeld ==
    /\ tick_queued'
    /\ task' = "blocked"
    /\ cmds' = cmds
    /\ work' = work
    /\ tick_log' = <<>> /\ applied' = 0 /\ drained' = <<>>
    /\ UNCHANGED <<ms, flocks, blockers, positions, fresh_frame>>

\* the handler ran move_do_tick: it took the work and the commands that
\* were there, and created the task of the new tick
TickStarted ==
    /\ tick_log' # <<>>
    /\ tick_log'[1] \in {"apply_patches", "apply_uncomputed"}

\* C11 as it is stated: every tick event that arrives while the work of the
\* last tick is still running is recorded as a queued tick, and applies no
\* patch and drains no command
C11_BusyTickIsQueued ==
    [][(move_tick /\ WorkRunning) => (abort' # "" \/ TickHeld)]_vars

\* C11: a tick event that arrives in a frame after the frame of the last
\* tick, while the work of that tick is still running, starts no tick: it
\* is recorded as queued, no patch is applied and no command is drained.
\* The queued tick runs at the first update that finds the work complete,
\* and not at an update before.  A tick starts, and creates the next tick
\* task, only when the task of the last tick has run to its end or has been
\* cancelled: at most one tick task is in flight.
C11_LaterBusyTickIsQueued ==
    [][/\ (move_tick /\ fresh_frame /\ WorkRunning) => (abort' # "" \/ TickHeld)
       /\ (on_update /\ WorkRunning) => (abort' # "" \/ TickHeld)
       /\ (on_update /\ ~WorkRunning) =>
            \/ abort' # ""
            \/ /\ TickStarted
               /\ ~tick_queued'
               /\ applied' = Len(work)
               /\ drained' = cmds /\ cmds' = <<>>
       /\ TickStarted =>
            /\ ~WorkRunning
            /\ tick_log'[1] = "apply_patches"
            /\ abort' = "" => task' = "ready"
      ]_vars

\* a tick event found the work of the last tick running: the tick is
\* queued, and the commands and the work items are still there
C11_Witness ==
    /\ tick_queued /\ task = "blocked" /\ abort = ""
    /\ cmds # <<>> /\ work # <<>>
    /\ tick_log = <<>>

\* C12: in no frame have both an interpolation subtick and a full movement
\* tick run, whatever the order of the handlers in the frame
C12_NoSubtickInTickFrame == ~(interpolated /\ ~fresh_frame)

\* C13: a flush or a shutdown that finds the tick task waiting for the GPU
\* cancels the task and empties the work buffer with no patch applied: the
\* Movestates change by the drained commands only.  Every patch that a
\* later tick applies was computed by a task that ran to its end, so none
\* of the patches of the cancelled tick is ever applied.
C13_CancelledPatchesAreDiscarded ==
    [][/\ ((G_Move_FlushWork \/ G_Move_Shutdown) /\ WorkRunning) =>
            \/ abort' # ""
            \/ /\ task' = "none"
               /\ work' = <<>>
               /\ applied' = 0
               /\ tick_log'[1] = "cancel_task"
               /\ (G_Move_FlushWork /\ cmds = <<>>) => UNCHANGED <<ms, flocks, blockers>>
       /\ TickStarted =>
            /\ tick_log'[1] = "apply_patches"
            /\ task # "blocked"
      ]_vars

\* a flush has cancelled the task of a tick that had a work item for a
\* moving agent: the work buffer is empty and the agent is as it was
C13_Witness ==
    /\ abort = ""
    /\ tick_log = <<"cancel_task", "discard_work", "drain_commands">>
    /\ task = "none" /\ work = <<>>
    /\ drained = <<>>
    /\ \E u \in UIDs : HasMs(u) /\ ms[u].state = STATE_MOVING /\ ms[u].velocity = 0

\* C14: a step that leaves the work of a tick in flight, neither completing
\* nor cancelling it, neither changes nor releases the snapshot that the
\* work reads
C14_SnapshotKeptWhileInFlight ==
    [][(InFlight /\ task' = task /\ work' = work /\ abort = "")
        => /\ UNCHANGED <<positions, sel_radiuses>>
           /\ \A i \in 1..Len(tick_log') : tick_log'[i] # "update_gamestate"
      ]_vars

\* C15: when a task cannot be created, its body runs in its place with the
\* argument of the task: no tick stops for it, and every cell arrival
\* field is computed from its request, as it is with a task
C15_NoTaskIsHarmless ==
    /\ abort \notin {"tick_task_created", "crash_cell_field_task"}
    /\ \A fid \in DOMAIN formations : formations[fid].field = "computed"

\* the elements of a sequence
Range(q) == {q[i] : i \in 1..Len(q)}

\* the flock has a member that is not Arrived in the tables st
HasUnarrived(st, fl) == \E u \in fl.ents : st.ms[u].state # STATE_ARRIVED

\* the tables of the tick that ran last when it had popped its commands
Popped == ApplyInOrder(pre, drained, Len(drained))

\* C16: the flocks that a tick leaves are the flocks that are there when
\* its commands are drained and that have a member in another state than
\* Arrived, each as it was: every flock whose members are all Arrived is
\* disbanded, and no other one
C16_DisbandExactlyArrivedFlocks ==
    AfterTick
    => /\ Range(flocks) = {fl \in Range(Popped.flocks) : HasUnarrived(Popped, fl)}
       /\ \A i \in 1..Len(flocks) : HasUnarrived(Core, flocks[i])

\* a tick has disbanded the flock of the two agents: one of them was
\* Arrived before the tick, the other one has arrived in it
C16_Witness ==
    /\ AfterTick
    /\ flocks = <<>>
    /\ \E fl \in Range(pre.flocks) :
        /\ fl.ents = UIDs
        /\ \E u \in UIDs : pre.ms[u].state = STATE_ARRIVED
        /\ fl \in Range(Popped.flocks)
        /\ ~HasUnarrived(Popped, fl)

(***************************************************************************)
(* Surround and enter-range targets                                        *)
(***************************************************************************)
\* the tick of this step applies the patches of the last tick
AppliesPatches ==
    /\ abort = ""
    /\ work # <<>>
    /\ tick_log' # <<>>
    /\ tick_log'[1] = "apply_patches"

\* C17: when the target of a SurroundEntity agent has been removed, the tick
\* that applies the agent's patch leaves the agent Arrived, and no
\* assertion fails and the position of the removed target is not read while
\* the patch is computed and applied
C17_RemovedTargetArrives ==
    [][(/\ AppliesPatches
        /\ ms[1] # NoMs
        /\ ms[1].state = STATE_SURROUND_ENTITY
        /\ ~entity_exists(Core, ms[1].surround_target_uid))
       => /\ pre'.abort = ""
          /\ pre'.ms[1].state = STATE_ARRIVED]_vars

\* the patch that the tick task has computed for the agent, or NoPatch
PatchOf(u) ==
    LET hits == {i \in 1..Len(work) : work[i].uid = u /\ work[i].computed}
    IN IF hits = {} THEN NoPatch ELSE work[CHOOSE i \in hits : TRUE].patch

\* the target of the flock of the agent, or -1 for an agent in no flock
FlockTarget(st, u) ==
    IF flock_for_ent(st, u) = 0 THEN -1
    ELSE st.flocks[flock_for_ent(st, u)].target_xz

\* C18: when the target of a SurroundEntity agent has moved away from the
\* destination of the agent's flock, and the tick task has patched the agent
\* with the closest reachable position next to the target, the tick that
\* applies the patch makes that position the destination of the flock
C18_RepathSetsFlockDest ==
    [][(/\ AppliesPatches
        /\ ms[1] # NoMs
        /\ ms[1].state = STATE_SURROUND_ENTITY
        /\ entity_exists(Core, ms[1].surround_target_uid)
        /\ positions[ms[1].surround_target_uid] # FlockTarget(Core, 1)
        /\ "SET_DEST" \in PatchOf(1).flags)
       => /\ pre'.abort = ""
          /\ FlockTarget(pre', 1) # FlockTarget(Core, 1)]_vars

\* the distance of the agent to its surround target in the snapshot
TargetDist(u) == Dist(positions[u], positions[ms[u].surround_target_uid])

\* C19: when the patch of a SurroundEntity agent is applied,
\* using_surround_field becomes true only if the target is closer than
\* SURROUND_LOW_WATER and becomes false only if it is at SURROUND_HIGH_WATER
\* or farther; in every other case it keeps its value
C19_FlagFollowsBands ==
    [][(/\ AppliesPatches
        /\ ms[1] # NoMs
        /\ ms[1].state = STATE_SURROUND_ENTITY
        /\ pre'.abort = ""
        /\ pre'.ms[1].using_surround_field # ms[1].using_surround_field)
       => /\ entity_exists(Core, ms[1].surround_target_uid)
          /\ IF pre'.ms[1].using_surround_field
             THEN TargetDist(1) < SURROUND_LOW_WATER
             ELSE TargetDist(1) >= SURROUND_HIGH_WATER]_vars

\* the agent has ended its way into the range of its target
EndedInRange(m) ==
    /\ m # NoMs
    /\ m.state = STATE_WAITING
    /\ m.wait_prev = STATE_ENTER_ENTITY_RANGE

\* C20: the tick that applies the patch of an EnterEntityRange agent that
\* was found within the range of its target leaves the agent still and
\* fails no assertion, and the agent is still after every later step that
\* pops no command for it, again with no assertion failing
C20_InRangeEndsMovement ==
    [][/\ (/\ AppliesPatches
           /\ ms[1] # NoMs
           /\ ms[1].state = STATE_ENTER_ENTITY_RANGE
           /\ "SET_STATE" \in PatchOf(1).flags
           /\ PatchOf(1).next_state = STATE_WAITING)
          => /\ pre'.abort = ""
             /\ EndedInRange(pre'.ms[1])
       /\ (/\ abort = ""
           /\ EndedInRange(ms[1])
           /\ \A i \in 1..Len(drained') : drained'[i].uid # 1)
          => /\ abort' = ""
             /\ ms'[1] = ms[1]]_vars
\* the size of an angle in degrees
Abs(d) == IF d < 0 THEN -d ELSE d

\* agent 1 is in Turning and the tick applies the patch of its work item
TurnApplied ==
    /\ AppliesPatches
    /\ HasMs(1) /\ ms[1].state = STATE_TURNING
    /\ \E i \in 1..Len(work) : work[i].uid = 1

\* C21: a tick rotates an agent in Turning by at most MAX_TURN_RATE degrees
\* and not away from its target direction
C21_TurnIsBounded ==
    [][TurnApplied
        => /\ Abs(PFM_Quat_PitchDiff(xform'[1].rot, xform[1].rot)) <= MAX_TURN_RATE
           /\ Abs(PFM_Quat_PitchDiff(xform'[1].rot, ms[1].target_dir))
                <= Abs(PFM_Quat_PitchDiff(xform[1].rot, ms[1].target_dir))]_vars

\* C22: an agent that waits for a path is retried: every tick that leaves
\* it Waiting gives it a work item, whose update counts WAIT_TICKS down and
\* sends the agent on its way again
C22_WaitingIsRetried ==
    AfterTick =>
        \A u \in UIDs : HasMs(u) /\ ms[u].state = STATE_WAITING
            => \E i \in 1..Len(work) : work[i].uid = u

\* interpolate_tick moves agent 1 by a subtick
Subtick ==
    /\ HasMs(1) /\ ms[1].left > 0
    /\ tick_log' = <<>> /\ ms'[1] # NoMs /\ ms'[1].left < ms[1].left

\* C23: a subtick fails no assertion about its fraction and moves the agent
\* one step fraction further on the way from prev_pos to next_pos, and the
\* last subtick puts it at next_pos
C23_SubtickAddsStep ==
    [][Subtick
        => /\ abort' = ""
           /\ xform'[1].at = xform[1].at + ms[1].step
           /\ ms'[1].left = 0 => xform'[1].at = 20]_vars

\* the session after the state was saved, cleared as by G_Move_Shutdown and
\* G_Move_Init, and loaded again: the game has added every entity anew, at
\* its place and with its radius, and the commands are pending when
\* G_Move_LoadState reads the savefile
Reloaded ==
    LET had == SetToSeq({u \in UIDs : HasMs(u)})
    IN load_state([Core EXCEPT !.ms = [u \in UIDs |-> NoMs], !.flocks = <<>>,
                               !.blockers = [t \in Tiles |-> 0],
                               !.log = <<>>],
                  [i \in 1..Len(had) |->
                    G_Move_AddEntity(had[i], positions[had[i]],
                                     sel_radiuses[had[i]])],
                  G_Move_SaveState(Core))

C26_RefcountIsBoundAgents ==
    /\ abort \notin {"formation_exists", "formation_has_ent"}
    /\ \A fid \in DOMAIN formations :
        /\ formations[fid].refcount > 0
        /\ formations[fid].refcount =
            Cardinality({u \in UIDs : ent_formation[u] = fid})
    /\ \A u \in UIDs :
        ent_formation[u] # NULL_FID => ent_formation[u] \in DOMAIN formations

\* the cells that are placed, as pairs of subformation and cell
PlacedCells ==
    {sc \in {1, 2} \X {0, 1} :
        plan.subs[sc[1]].cells[sc[2]].state = "NOT_OCCUPIED"}

\* the tiles that the placed cell covers
TilesOf(sc) ==
    M_Tile_AllUnderCircle(plan.subs[sc[1]].cells[sc[2]].tile,
                          plan.subs[sc[1]].unit_radius)

\* C27: the tiles under two cells that are placed are disjoint, whatever
\* their subformations and layers, and the tiles under a placed cell are
\* allocated on every layer
C27_CellsShareNoTile ==
    /\ \A a, b \in PlacedCells : a # b => TilesOf(a) \cap TilesOf(b) = {}
    /\ \A a \in PlacedCells : \A t \in TilesOf(a) : \A l \in {0, 1} :
        plan.occupied[l][t] = "ALLOCATED"

\* both subformations are done: cells of two subformations on different
\* layers are placed, the first with cells of three tiles, and no tile is
\* left visited
C27_Witness ==
    /\ plan.sub = 3
    /\ plan.subs[2].layer = 1 /\ plan.subs[1].unit_radius = 1
    /\ \E a, b \in PlacedCells : a[1] = 1 /\ b[1] = 2
    /\ \A l \in {0, 1} : \A t \in DOMAIN plan.occupied[l] :
        plan.occupied[l][t] # "VISITED"

\* the assignment computation has returned
Assigned == plan.kind = "assign" /\ plan.pc = "done"

\* C28: when the assignment computation is over, every entity has one cell
\* of the subformation and no cell has two entities
C28_AssignmentIsPermutation ==
    Assigned
        => /\ Len(plan.assignment) = plan.n
           /\ \A i \in 1..plan.n : plan.assignment[i] \in 1..plan.n
           /\ \A i, j \in 1..plan.n :
                i # j => plan.idx_to_cell[plan.assignment[i]]
                            # plan.idx_to_cell[plan.assignment[j]]

\* the cost of a sequence that gives a column to every row: the number of
\* its cells that are not placed, and the sum of the costs of the others
RECURSIVE TotalCost(_, _)
TotalCost(a, i) ==
    IF i = 0 THEN [unplaced |-> 0, rest |-> 0]
    ELSE LET t == TotalCost(a, i - 1)
             c == plan.orig[i][a[i]]
         IN IF c = INT_MAX THEN [t EXCEPT !.unplaced = @ + 1]
            ELSE [t EXCEPT !.rest = @ + c]

\* C29: of any cost matrix that was made, the computation returns before
\* it has run MaxSteps parts, and what it returns costs no more than any
\* permutation
C29_AssignmentIsMinimal ==
    /\ plan.kind = "assign" /\ plan.pc # "done" => plan.steps < MaxSteps
    /\ Assigned /\ plan.error # "cost_matrix_cells"
        => /\ plan.error = "" /\ Len(plan.assignment) = plan.n
           /\ \A q \in [1..plan.n -> 1..plan.n] :
                (\A i, j \in 1..plan.n : i # j => q[i] # q[j])
                    => LET a == TotalCost(plan.assignment, plan.n)
                           b == TotalCost(q, plan.n)
                       IN \/ a.unplaced < b.unplaced
                          \/ a.unplaced = b.unplaced /\ a.rest <= b.rest

\* an assignment is returned after the matrix was changed for more zeroes,
\* that is not the diagonal, costs more than nothing and less than the
\* diagonal
C29_Witness ==
    /\ Assigned /\ plan.error = "" /\ plan.n = 3
    /\ \A j \in 1..3 : plan.cells[j] = "NOT_OCCUPIED"
    /\ TotalCost(plan.assignment, 3).rest > 0
    /\ TotalCost(plan.assignment, 3).rest < TotalCost(<<1, 2, 3>>, 3).rest
    /\ \E r, c \in 1..3 : plan.costs[r][c] > plan.orig[r][c]

\* following the flow directions from a tile for at most k steps reaches
\* the target over tiles with a finite cost
RECURSIVE Follows(_, _)
Follows(t, k) ==
    \/ t = plan.target
    \/ /\ k > 0 /\ plan.flow[t] # "FD_NONE"
       /\ LET next == <<t[1] + flow_dir(plan.flow[t])[1],
                        t[2] + flow_dir(plan.flow[t])[2]>>
          IN /\ next \in FieldTiles
             /\ plan.intf[next] < INFINITY
             /\ Follows(next, k - 1)

\* the flow field is built
FlowBuilt == plan.kind = "field" /\ plan.pc = "done"

\* C30: in a flow field that is built, following the directions from a
\* tile with a finite cost reaches the target in at most twice that cost
\* steps and over tiles with a finite cost only
C30_FlowReachesTarget ==
    FlowBuilt
        => /\ plan.error = ""
           /\ \A t \in FieldTiles :
                plan.intf[t] < INFINITY => Follows(t, 2 * plan.intf[t])

\* a flow field is built in which a tile that costs 3 or more leads over a
\* diagonal, and a tile is impassable
C30_Witness ==
    /\ FlowBuilt
    /\ \E t \in FieldTiles : plan.intf[t] = INFINITY
    /\ \E t \in FieldTiles :
        /\ plan.intf[t] >= 3 /\ plan.intf[t] < INFINITY
        /\ plan.flow[t] \in {"FD_NW", "FD_NE", "FD_SW", "FD_SE"}

\* C31: in a flow field that is built, a tile with a diagonal direction has
\* a finite cost on both tiles beside that diagonal
C31_DiagonalHasFiniteSides ==
    FlowBuilt
        => \A t \in FieldTiles :
            plan.intf[t] < INFINITY
            /\ plan.flow[t] \in {"FD_NW", "FD_NE", "FD_SW", "FD_SE"}
                => LET d == flow_dir(plan.flow[t])
                   IN /\ plan.intf[<<t[1] + d[1], t[2]>>] < INFINITY
                      /\ plan.intf[<<t[1], t[2] + d[2]>>] < INFINITY

\* C32: no blocker is registered for an agent that is blocking and none is
\* removed for an agent that is not: the assertions of entity_block and of
\* entity_unblock hold
C32_BlockAssertionsHold ==
    abort \notin {"block_not_blocking", "unblock_blocking"}

\* C33: when the work of a tick is computed, an agent in a state that
\* seeks a point has a flock and an agent that seeks enemies has none: the
\* assertions of the velocity computation on the flock hold
C33_WorkFindsFlock ==
    abort \notin {"desired_velocity_flock", "velocity_flock", "velocity_no_flock"}

\* the blocking agents whose recorded stop disk covers the tile
Covering(t) ==
    {u \in UIDs : /\ HasMs(u) /\ ms[u].blocking
                  /\ t \in Disk(ms[u].last_stop_pos, ms[u].last_stop_radius)}

\* C34: the blocker count of every tile is the number of blocking agents
\* whose stop disk covers it, and the handlers that change the disks run to
\* their end
C34_CountsAreStopDisks ==
    /\ abort \notin {"block_not_blocking", "unblock_blocking"}
    /\ \A t \in Tiles : blockers[t] = Cardinality(Covering(t))

\* the counts of the tiles while no assertion has failed
CountsWhileRunning ==
    abort = "" => \A t \in Tiles : blockers[t] = Cardinality(Covering(t))

\* the flocks of the state that have the agent
FlocksOf(st, u) == {i \in 1..Len(st.flocks) : u \in st.flocks[i].ents}

\* C35: every agent is in one flock at most, in the state the handlers
\* leave and in the state that is loaded from its savefile
C35_OneFlockAtMost ==
    \A u \in UIDs :
        /\ abort = "" => Cardinality(FlocksOf(Core, u)) <= 1
        /\ abort = "" /\ Ok(Reloaded) => Cardinality(FlocksOf(Reloaded, u)) <= 1

\* a tick has drained a command that took agent 1 out of its flock and into
\* the flock of agent 2, which has another destination
C35_Witness ==
    /\ AfterTick /\ pre # NoPre
    /\ \E i \in FlocksOf(pre, 1) : \E j \in FlocksOf(Core, 1) :
        /\ 2 \notin pre.flocks[i].ents
        /\ 2 \in flocks[j].ents
        /\ pre.flocks[i].dest_id # flocks[j].dest_id
    /\ Cardinality(FlocksOf(Core, 1)) = 1

\* C36: after an executed tick the movement tick handler is registered for
\* exactly the event of the rate that the last G_Move_SetTickHz has set, and
\* for no other event, whatever calls of G_Move_SetTickHz came before the tick
C36_RegisteredForSetRate ==
    AfterTick => registered = {event_for_hz(move_hz)}

\* C37: G_Formation_GetForEnt answers for no agent the id of a formation
\* that was destroyed or that the agent was removed from, and no query of a
\* formation by the id that it answers fails
C37_NoStaleFormationId ==
    /\ \A u \in UIDs :
        LET fid == G_Formation_GetForEnt(Core, u) IN
        fid # NULL_FID =>
            /\ fid \in DOMAIN formations
            /\ u \in formations[fid].ents
    /\ abort # "formation_exists"

\* C38: of every slot of the cell arrival work at most one task is running
\* at any time, and the slot is dispatched for the entity that owns it
C38_OneTaskPerSlot ==
    plan.kind = "cells" =>
        \A j \in Slots :
            /\ plan.futures[j].running <= 1
            /\ plan.futures[j].uid = SubEnts[j]

\* C39: the render thread dispatches the velocity work of a tick only when
\* no fence of an earlier tick exists, also after a tick that was cancelled
\* or whose wait has timed out, and it reads the velocities only while a
\* fence exists
C39_OneFenceAtATime ==
    plan.kind = "gpu" => plan.error \notin {"dispatch_fence", "read_fence"}

\* C40: when mark_unused_cells has marked cells, because more cells were
\* placed than the subformation has entities, the cells that are not marked
\* unused are as many as the entities
C40_UsedCellsAreEntities ==
    (/\ plan.kind = "assign" /\ plan.pc # "start"
     /\ \E j \in 1..Len(plan.cells) : plan.cells[j] = "NOT_USED")
        => Cardinality({j \in 1..Len(plan.cells) : plan.cells[j] # "NOT_USED"})
                = plan.n

====
